---- MODULE Spec2Model ----
(***************************************************************************)
(* Control-flow-graph recovery core of angr (angr/analyses/cfg_base.py).   *)
(*                                                                         *)
(* SpecNorm models CFGBase.normalize() and CFGBase._post_analysis() over a *)
(* networkx DiGraph of CFGNode objects; SpecRet models                     *)
(* CFGBase._analyze_function_features() over the knowledge base's          *)
(* functions; SpecMF models CFGBase.make_functions() with                  *)
(* _process_irrational_functions(), _graph_bfs_custom() and                *)
(* _graph_traversal_handler().                                             *)
(***************************************************************************)
EXTENDS Integers, Sequences, FiniteSets, TLC

\* ------------------------------------------------------------------ bounds
\* Block ranges [addr, addr+size) of the initial graphs lie inside
\* 0..MaxAddr; the chained graphs (ChainGraphs) reach one address further.
MaxAddr == 3
\* Largest number of main-context blocks, of other nodes and of edges of an
\* initial graph.
MaxNodes == 4
MaxExtra == 1
MaxEdges == 1
\* Largest number of normalize() invocations in one behaviour.
MaxCalls == 2
\* Number of functions of the knowledge base.
NumFuncs == 2
\* Largest number of _analyze_function_features() invocations in one behaviour.
MaxPasses == 3
\* Largest number of nodes and of edges of a graph that is queried, and
\* largest number of query calls in one behaviour.
MaxQNodes == 2
MaxQEdges == 2
MaxQueries == 1

\* Calling contexts (CFGNode.callstack_key) of the initial nodes.
CallstackKeys == {"c1", "c2"}
BlockAddrs == 0 .. MaxAddr
Addrs == 0 .. MaxAddr + 1

VARIABLES
    graph,            \* self._graph: [nodes |-> set of CFGNode, edges |-> set of [src, dst, data]]
    _nodes,           \* self._nodes: simrun key -> CFGNode
    _nodes_by_addr,   \* self._nodes_by_addr: address -> list of CFGNode
    _normalize,       \* self._normalize: normalisation was requested
    _normalized,      \* self._normalized
    end_addresses,    \* normalize(): local end_addresses, (end_addr, callstack_key) -> set of CFGNode
    tpl_to_find,      \* normalize(): the group being resolved
    all_nodes,        \* normalize(): the group's members sorted by size
    other_idx,        \* normalize(): position of the `for n in other_nodes` loop in all_nodes
    norm_pc,          \* "idle" | "loop" | "break" | "done"
    caller,           \* who invoked the running/last normalize(): "none" | "direct" | "post_analysis"
    calls,            \* number of normalize() invocations so far
    entry,            \* history: graph and indexes at the entry of the current normalize() call
    truncated,        \* history: nodes truncated by the current normalize() call
    hash_order,       \* iteration order of a Python set of equal-sized nodes: "asc" | "desc"
    kb_functions,     \* self.kb.functions: function address -> Function
    hooks,            \* self.project hooks: function address -> "unhooked" | "no_ret" | "ret" | "no_attr"
    _changed_functions, \* self._changed_functions: None or a set of function addresses
    ret_pc,           \* _analyze_function_features(): "idle" | "visit"
    todo,             \* _analyze_function_features(): functions of all_functions not visited yet
    changes,          \* _analyze_function_features(): the record it builds and returns
    passes,           \* number of _analyze_function_features() invocations so far
    full_passes,      \* history: passes over all functions that returned so far
    last_pass,        \* history: the last pass, "none" | "running" | "returned" | "raised"
    entry_returning,  \* history: every function's returning flag at the entry of the last pass
    settled,          \* history: a pass over all functions returned an empty record, and no
                      \*   function has got an endpoint since
    changing_passes,  \* history: number of passes over all functions that changed a flag
    indirect_jumps,   \* self.indirect_jumps: block address -> resolved_targets
    memory,           \* what project.factory.sim_run() finds at an address
    plt_stubs,        \* the addresses whose Function has is_plt set
    tmp_functions,    \* make_functions(): tmp_functions, the known functions
    blockaddr_to_function, \* make_functions(): block address -> address of its Function
    functions_to_remove,   \* _process_irrational_functions(): removed address -> merge_with
    scan_todo,        \* _process_irrational_functions(): functions the first loop has to visit
    scan_func,        \* _process_irrational_functions(): func_addr while its tail is probed, as a set
    last_addr,        \* _process_irrational_functions(): last_addr of the probing loop
    endpoint_addr,    \* _process_irrational_functions(): endpoint_addr of the probing loop
    merge_todo,       \* _process_irrational_functions(): entries the merge loop has to visit
    function_nodes,   \* make_functions(): the seeds not traversed yet
    seed,             \* make_functions(): the seed of the running traversal, as a set
    stack,            \* _graph_bfs_custom(): stack
    traversed,        \* _graph_bfs_custom(): traversed
    cur_edges,        \* _graph_bfs_custom(): the out-edges of n in iteration order
    edge_idx,         \* _graph_bfs_custom(): position of the loop over cur_edges
    function_address, \* CFGNode.function_address of the nodes that have one
    functions_at_entry, \* history: self.kb.functions at the entry of make_functions()
    mf_pc,            \* make_functions(): "idle" | "scan" | "probe" | "merge" | "seeds" |
                      \*   "bfs" | "edges" | "plt" | "update" | "done"
    query,            \* history: the last call of a query method, [op, args]
    result,           \* history: what that call gave, [raised, value]
    queries,          \* number of query calls so far
    sim_action,       \* a SimActionData, as its constructor leaves it
    action_args       \* history: the arguments sim_action was constructed with

normVars == <<graph, _nodes, _nodes_by_addr, _normalize, _normalized, end_addresses,
              tpl_to_find, all_nodes, other_idx, norm_pc, caller, calls, entry,
              truncated, hash_order>>

passVars == <<settled, changing_passes>>

retVars == <<kb_functions, hooks, _changed_functions, ret_pc, todo, changes, passes,
             full_passes, last_pass, entry_returning, passVars>>

probeVars == <<scan_func, last_addr, endpoint_addr>>

queryVars == <<query, result, queries, sim_action, action_args>>

mfVars == <<indirect_jumps, memory, plt_stubs, tmp_functions, blockaddr_to_function,
            functions_to_remove, scan_todo, merge_todo, function_nodes, seed, stack,
            traversed, cur_edges, edge_idx, function_address, functions_at_entry, mf_pc,
            probeVars>>

\* --------------------------------------------------------------- CFGNode
\* A CFGNode; two nodes are equal iff these identifying attributes agree.
CFGNode(addr, size, callstack_key, looping_times, is_simprocedure) ==
    [addr |-> addr, size |-> size, callstack_key |-> callstack_key,
     looping_times |-> looping_times, is_simprocedure |-> is_simprocedure,
     is_syscall |-> FALSE, no_ret |-> FALSE, has_return |-> FALSE]

\* A node whose size is not known (CFGNode.size is None) is written with
\* size 0; the blocks of the graph have a positive size.
SizeKnown(n) == n.size # 0

\* The context-sensitive key a node is stored under in self._nodes.
SimrunKey(n) == <<n.callstack_key, n.addr>>

\* ------------------------------------------------------ networkx.DiGraph
NoStmtIdx == {}
EdgeData(jumpkind, exit_stmt_idx) == [jumpkind |-> jumpkind, exit_stmt_idx |-> exit_stmt_idx]

\* dict.update(): keys of `new` overwrite those of `old`; an absent
\* exit_stmt_idx key (NoStmtIdx) leaves the old one.
UpdateData(old, new) ==
    [jumpkind |-> new.jumpkind,
     exit_stmt_idx |-> IF new.exit_stmt_idx = NoStmtIdx THEN old.exit_stmt_idx
                       ELSE new.exit_stmt_idx]

\* DiGraph.add_edge(u, v, data): adds both nodes when missing; an existing
\* edge u->v keeps its dict, updated with data.
AddEdge(g, u, v, data) ==
    LET old == {e \in g.edges : e.src = u /\ e.dst = v}
        d   == IF old = {} THEN data
               ELSE UpdateData((CHOOSE e \in old : TRUE).data, data)
    IN  [nodes |-> g.nodes \cup {u, v},
         edges |-> (g.edges \ old) \cup {[src |-> u, dst |-> v, data |-> d]}]

\* DiGraph.remove_edge(u, v)
RemoveEdge(g, u, v) ==
    [nodes |-> g.nodes, edges |-> {e \in g.edges : ~(e.src = u /\ e.dst = v)}]

\* DiGraph.remove_node(n): the node and every edge incident to it.
RemoveNode(g, n) ==
    [nodes |-> g.nodes \ {n}, edges |-> {e \in g.edges : e.src # n /\ e.dst # n}]

\* DiGraph.in_edges_iter([n], data=True)
InEdges(g, n) == {e \in g.edges : e.dst = n}

RECURSIVE AddEdgesTo(_, _, _)
\* for p, _, data in preds: graph.add_edge(p, v, data)
AddEdgesTo(g, preds, v) ==
    IF preds = {} THEN g
    ELSE LET e == CHOOSE x \in preds : TRUE
         IN  AddEdgesTo(AddEdge(g, e.src, v, e.data), preds \ {e}, v)

RECURSIVE RemoveEdgesFrom(_, _)
\* for p, _, _ in preds: graph.remove_edge(p, n)
RemoveEdgesFrom(g, preds) ==
    IF preds = {} THEN g
    ELSE LET e == CHOOSE x \in preds : TRUE
         IN  RemoveEdgesFrom(RemoveEdge(g, e.src, e.dst), preds \ {e})

\* ------------------------------------------------------- Python helpers
Range(s) == {s[i] : i \in 1 .. Len(s)}

\* list.remove(x): drops the first element equal to x.
ListRemove(s, x) ==
    LET i == CHOOSE j \in 1 .. Len(s) : s[j] = x /\ \A k \in 1 .. (j - 1) : s[k] # x
    IN  SubSeq(s, 1, i - 1) \o SubSeq(s, i + 1, Len(s))

\* d[k] = v on a dict
DictSet(d, k, v) == [x \in (DOMAIN d) \cup {k} |-> IF x = k THEN v ELSE d[x]]

\* Position of a node in the iteration of a Python set of equal-sized nodes
\* of one group (they differ in looping_times only).
HashRank(n, ho) == IF ho = "asc" THEN n.looping_times ELSE 0 - n.looping_times

\* First element of a set of same-address, same-end nodes in iteration order.
FirstOf(S, ho) == CHOOSE x \in S : \A y \in S : HashRank(x, ho) <= HashRank(y, ho)

RECURSIVE SortedBySize(_, _)
\* sorted(all_nodes, key=lambda node: node.size): ascending size, ties in
\* the set's iteration order (sorted() is stable).
SortedBySize(S, ho) ==
    IF S = {} THEN << >>
    ELSE LET m == CHOOSE x \in S : \A y \in S :
                      \/ x.size < y.size
                      \/ x.size = y.size /\ HashRank(x, ho) <= HashRank(y, ho)
         IN  <<m>> \o SortedBySize(S \ {m}, ho)

\* ------------------------------------------------------------ normalize()
Tpls == Addrs \X CallstackKeys
NoneTpl == <<0 - 1, "None">>

\* The graph and the two node indexes normalize() rewrites, with its local
\* end_addresses, as one value.
NormState(g, by_key, by_addr, ea) ==
    [graph |-> g, by_key |-> by_key, by_addr |-> by_addr, ea |-> ea]

\* end_addresses as built from the graph: non-simprocedure nodes grouped by
\* (addr + size, callstack_key).
EndAddresses(g) ==
    [t \in Tpls |-> {n \in g.nodes : /\ ~n.is_simprocedure
                                     /\ n.addr + n.size = t[1]
                                     /\ n.callstack_key = t[2]}]

\* Groups with more than one member.
Conflicts(ea) == {t \in Tpls : Cardinality(ea[t]) > 1}

\* Whether the node that replaces n already exists in its new group.
ReuseCandidates(st, n, new_end_addr) ==
    {i \in st.ea[<<new_end_addr, n.callstack_key>>] : i.addr = n.addr}

\* graph.remove_edge(p, n) for every predecessor, then graph.remove_node(n).
DetachNode(g, n) == RemoveNode(RemoveEdgesFrom(g, InEdges(g, n)), n)

\* The predecessors' edges re-added towards new_node.
RewirePredecessors(g, preds, new_node) == AddEdgesTo(g, preds, new_node)

\* self._nodes_by_addr: n replaced by new_node when n is listed.
UpdateNodesByAddr(by_addr, n, new_node) ==
    IF n \in Range(by_addr[n.addr])
    THEN [by_addr EXCEPT ![n.addr] = Append(ListRemove(@, n), new_node)]
    ELSE by_addr

\* A size that cuts n one address short of the smallest node.
NewSizeShort(n, smallest_node) ==
    IF smallest_node.addr - n.addr >= 2 THEN smallest_node.addr - n.addr - 1
    ELSE smallest_node.addr - n.addr

\* new_size = smallest_node.addr - n.addr
NewSize(n, smallest_node) == smallest_node.addr - n.addr

\* One iteration of `for n in other_nodes` for node n of the group sorted
\* as `sorted` (smallest first).
TruncateNode(st, n, sorted, callstack_key, ho) ==
    LET smallest_node == sorted[1]
        new_size      == NewSize(n, smallest_node)
        new_end_addr  == n.addr + new_size
        tpl           == <<new_end_addr, n.callstack_key>>
        cands         == ReuseCandidates(st, n, new_end_addr)
        new_node      == IF cands # {} THEN FirstOf(cands, ho)
                         ELSE CFGNode(n.addr, new_size, callstack_key, 0, FALSE)
        ea1           == IF cands # {} THEN st.ea
                         ELSE [st.ea EXCEPT ![tpl] = @ \cup {new_node}]
        preds         == InEdges(st.graph, n)
        g1            == DetachNode(st.graph, n)
        g2            == RewirePredecessors(g1, preds, new_node)
        new_successors == SelectSeq(sorted, LAMBDA i : i.addr = smallest_node.addr)
        g3            == IF new_successors # << >>
                         THEN AddEdge(g2, new_node, new_successors[1],
                                      EdgeData("Ijk_Boring", NoStmtIdx))
                         ELSE g2
    IN  IF new_size = 0 THEN st
        ELSE NormState(g3,
                       DictSet(st.by_key, SimrunKey(n), new_node),
                       UpdateNodesByAddr(st.by_addr, n, new_node),
                       ea1)

\* The group left as it is.
KeepGroup(st, tpl, smallest_node) == st

\* end_addresses[tpl_to_find] = { smallest_node }
ResetGroup(st, tpl, smallest_node) ==
    [st EXCEPT !.ea = [st.ea EXCEPT ![tpl] = {smallest_node}]]

RECURSIVE BreakOthers(_, _, _, _, _)
\* The loop `for n in other_nodes` from position i of the sorted group on.
BreakOthers(st, sorted, i, callstack_key, ho) ==
    IF i > Len(sorted) THEN st
    ELSE BreakOthers(TruncateNode(st, sorted[i], sorted, callstack_key, ho),
                     sorted, i + 1, callstack_key, ho)

\* One iteration of the while loop for the group tpl: lines 667-728.
ProcessGroup(st, tpl, ho) ==
    LET sorted == SortedBySize(st.ea[tpl], ho)
    IN  ResetGroup(BreakOthers(st, sorted, 2, tpl[2], ho), tpl, sorted[1])

\* The conflicting group with the lowest end address, then the lowest
\* callstack key.
FirstConflict(ea) ==
    CHOOSE t \in Conflicts(ea) : \A u \in Conflicts(ea) :
        \/ t[1] < u[1]
        \/ t[1] = u[1] /\ (t[2] = u[2] \/ t[2] = "c1")

RECURSIVE NormalizeInOrder(_, _)
\* The whole while loop of normalize() when the dict iteration always yields
\* the conflicting groups in ascending (end address, callstack key) order.
NormalizeInOrder(st, ho) ==
    IF Conflicts(st.ea) = {} THEN st
    ELSE NormalizeInOrder(ProcessGroup(st, FirstConflict(st.ea), ho), ho)

\* ------------------------------------------------------------ Function
\* Nodes of a function's transition graph: a basic block, a Function (a
\* call target) or a HookNode.
BlockNode(addr) == [kind |-> "block", addr |-> addr]
FuncNode(addr) == [kind |-> "func", addr |-> addr]
HookNode(addr) == [kind |-> "hook", addr |-> addr]

TEdge(src, dst, type) == [src |-> src, dst |-> dst, type |-> type]

\* A Function of the knowledge base.
Function(addr, blocks, endpoints, tg) ==
    [addr |-> addr, blocks |-> blocks, endpoints |-> endpoints,
     transition_graph |-> tg, is_syscall |-> FALSE, returning |-> "None"]

\* func.transition_graph.nodes(), also func.nodes
TGNodes(func) ==
    {BlockNode(a) : a \in func.blocks}
    \cup {e.src : e \in func.transition_graph} \cup {e.dst : e \in func.transition_graph}

\* func.graph: the transitions and fake returns between the function's own blocks.
LocalNodes(func) == {BlockNode(a) : a \in func.blocks}
LocalEdges(func) ==
    {e \in func.transition_graph :
        /\ e.type \in {"transition", "fake_return"}
        /\ e.src \in LocalNodes(func)
        /\ e.dst \in LocalNodes(func)}

TGOutEdges(func, n) == {e \in func.transition_graph : e.src = n}
TGInEdges(func, n) == {e \in func.transition_graph : e.dst = n}

\* kb.functions.callgraph.predecessors(addr): the functions calling addr.
Callers(kb, addr) ==
    {f \in DOMAIN kb : \E e \in kb[f].transition_graph :
        e.type = "call" /\ e.dst = FuncNode(addr)}
\* ------------------------------------------------------- get_any_node()
\* get_any_node() that does not look at looping_times.
GetAnyNodeAnyLoop(g, addr, is_syscall, anyaddr) ==
    {n \in g.nodes :
        /\ IF anyaddr /\ SizeKnown(n)
           THEN addr >= n.addr /\ addr < n.addr + n.size
           ELSE addr = n.addr
        /\ n.is_syscall \in is_syscall}

\* The nodes get_any_node(addr, is_syscall, anyaddr) may return; it returns
\* None when there is none.  is_syscall is the set of accepted is_syscall
\* values: BOOLEAN stands for the default None, {b} for the boolean b.
GetAnyNode(g, addr, is_syscall, anyaddr) ==
    {n \in g.nodes :
        /\ n.looping_times = 0
        /\ IF anyaddr /\ SizeKnown(n)
           THEN addr >= n.addr /\ addr < n.addr + n.size
           ELSE addr = n.addr
        /\ n.is_syscall \in is_syscall}

\* ------------------------------------- _analyze_function_features(): a visit
\* Choice functions: one element of opts[s] for every s (the first item of
\* a networkx or set iteration).
Choices(opts) ==
    {c \in [DOMAIN opts -> UNION {opts[s] : s \in DOMAIN opts}] :
        \A s \in DOMAIN opts : c[s] \in opts[s]}

\* A hook rule under which a hook without NO_RET means that the function
\* returns.
HookVerdictDefaultReturns(hook) ==
    IF hook = "unhooked" THEN "fallthrough"
    ELSE IF hook = "no_ret" THEN "False"
    ELSE "True"

\* Lines 523-532: what the hook of the function decides, "fallthrough" when
\* it decides nothing.
HookVerdict(hook) ==
    IF hook = "unhooked" THEN "fallthrough"
    ELSE IF hook = "no_attr" THEN "fallthrough"
    ELSE IF hook = "no_ret" THEN "False"
    ELSE "True"

\* Lines 538-541: the non-fake_return out-edges of src.
NonFakeOut(func, src) == {e \in TGOutEdges(func, src) : e.type # "fake_return"}

FakeRetEdges(func) == {e \in LocalEdges(func) : e.type = "fake_return"}

\* Sources of fake returns whose call target is looked up (lines 543-548).
CallSites(func) == {e.src : e \in {x \in FakeRetEdges(func) : NonFakeOut(func, x.src) # {}}}

\* Lines 547-549 raise when the target is no function of the knowledge base.
DropRaises(kb, func, first_out) ==
    \E s \in CallSites(func) : first_out[s].dst.addr \notin DOMAIN kb

\* Lines 536-553: the fake returns removed from tmp_graph.
EdgesToRemove(kb, func, first_out) ==
    {e \in FakeRetEdges(func) :
        /\ e.src \in CallSites(func)
        /\ first_out[e.src].dst.addr \in DOMAIN kb
        /\ kb[first_out[e.src].dst.addr].returning = "False"}

\* Lines 557-558: nodes of tmp_graph with out degree 0.
TemporaryLocalEndpoints(kb, func, first_out) ==
    {n \in LocalNodes(func) :
        \A e \in LocalEdges(func) \ EdgesToRemove(kb, func, first_out) : e.src # n}

\* Lines 569-586: the (transition_type, endpoint) pairs.
TemporaryEndpoints(kb, func, first_out, first_in) ==
    UNION {
        LET tt  == IF TGInEdges(func, le) = {} THEN "None" ELSE first_in[le].type
            out == TGOutEdges(func, le)
        IN  IF out = {} THEN {<<tt, le>>}
            ELSE {<<tt, e.dst>> : e \in {x \in out : x.type # "fake_return"}}
        : le \in TemporaryLocalEndpoints(kb, func, first_out) \cap TGNodes(func)}

\* What get_any_node() returning None is modelled by: a node that is in no graph.
NoNode == [CFGNode(0, 0, "None", 0, FALSE) EXCEPT !.no_ret = TRUE]

\* Lines 600-616: an ordinary block; any_node is what get_any_node returned
\* (NoNode for None).
BlockVerdict(kb, func, endpoint, any_node) ==
    LET all_noret ==
            \A e \in TGOutEdges(func, endpoint) :
                IF e.dst.kind = "func"
                THEN e.dst.addr \in DOMAIN kb /\ kb[e.dst.addr].returning = "False"
                ELSE any_node = NoNode \/ any_node.no_ret = TRUE
    IN  IF all_noret THEN "True" ELSE "None"

\* Lines 588-627: one entry of all_endpoints_returning, "raise" when the
\* code raises (a HookNode whose hook has no NO_RET; an endpoint that is
\* not in func.nodes, whose entry is no tuple and breaks line 629).
EndpointVerdict(kb, hks, func, tt, endpoint, any_node) ==
    IF endpoint \in TGNodes(func)
    THEN IF endpoint.kind = "func"
         THEN <<tt, IF endpoint.addr \in DOMAIN kb THEN kb[endpoint.addr].returning
                    ELSE "None">>
         ELSE IF endpoint.kind = "hook"
         THEN IF endpoint.addr \in DOMAIN hks /\ hks[endpoint.addr] \in {"no_ret", "ret"}
              THEN <<tt, IF hks[endpoint.addr] = "no_ret" THEN "False" ELSE "True">>
              ELSE "raise"
         ELSE <<tt, BlockVerdict(kb, func, endpoint, any_node)>>
    ELSE "raise"

\* Lines 629-636 on the list all_endpoints_returning (as a set).
Aggregate(all_endpoints_returning) ==
    IF "raise" \in all_endpoints_returning THEN "raise"
    ELSE IF all_endpoints_returning # {}
            /\ \A t \in all_endpoints_returning : t[2] = "False" THEN "False"
    ELSE IF all_endpoints_returning # {}
            /\ \A t \in all_endpoints_returning : t = <<"transition", "True">> THEN "True"
    ELSE "None"

\* edges[0] of lines 539-547, for every source of a fake return.
FirstOutChoices(func) == Choices([s \in CallSites(func) |-> NonFakeOut(func, s)])

\* in_edges[0] of lines 573-574, for every node with in-edges.
FirstInChoices(func) ==
    Choices([n \in {m \in TGNodes(func) : TGInEdges(func, m) # {}} |->
                TGInEdges(func, n)])

\* What get_any_node() of line 607 returns, for every endpoint.
AnyNodeChoices(g, func) ==
    Choices([n \in TGNodes(func) |->
                IF GetAnyNode(g, n.addr, {func.is_syscall}, FALSE) = {}
                THEN {NoNode}
                ELSE GetAnyNode(g, n.addr, {func.is_syscall}, FALSE)])

\* Lines 534-636 for one choice of iteration orders: "None" leaves the
\* function unknown.
GraphVerdict(kb, hks, g, func, first_out, first_in, any_node) ==
    IF DropRaises(kb, func, first_out) THEN "raise"
    ELSE IF TemporaryLocalEndpoints(kb, func, first_out) = {} THEN "None"
    ELSE Aggregate({EndpointVerdict(kb, hks, func, t[1], t[2], any_node[t[2]]) :
                       t \in TemporaryEndpoints(kb, func, first_out, first_in)})

\* The verdicts lines 534-636 can reach over all iteration orders.
GraphVerdicts(kb, hks, g, func) ==
    {GraphVerdict(kb, hks, g, func, fo, fi, an) :
        fo \in FirstOutChoices(func),
        fi \in FirstInChoices(func),
        an \in AnyNodeChoices(g, func)}

\* The body of the loop without the test of line 509.
VisitVerdictsNoSkip(kb, hks, g, f) ==
    LET func == kb[f]
    IN  IF func.endpoints # {} THEN {"True"}
        ELSE IF HookVerdict(hks[f]) # "fallthrough" THEN {HookVerdict(hks[f])}
        ELSE GraphVerdicts(kb, hks, g, func)

\* The body of the loop with the hook consulted before the endpoints.
VisitVerdictsHookFirst(kb, hks, g, f) ==
    LET func == kb[f]
    IN  IF func.returning # "None" THEN {"skip"}
        ELSE IF HookVerdict(hks[f]) # "fallthrough" THEN {HookVerdict(hks[f])}
        ELSE IF func.endpoints # {} THEN {"True"}
        ELSE GraphVerdicts(kb, hks, g, func)

\* The body of `for func in all_functions` (lines 508-636) for function f:
\* the outcomes it can have, "skip" (determined before), "True", "False",
\* "None" (left unknown) or "raise".
VisitVerdicts(kb, hks, g, f) ==
    LET func == kb[f]
    IN  IF func.returning # "None" THEN {"skip"}
        ELSE IF func.endpoints # {} THEN {"True"}
        ELSE IF HookVerdict(hks[f]) # "fallthrough" THEN {HookVerdict(hks[f])}
        ELSE GraphVerdicts(kb, hks, g, func)

\* ------------------------------------------------- initial graphs (inputs)
RECURSIVE SubsetsUpTo(_, _)
\* The subsets of U with at most n elements.
SubsetsUpTo(U, n) ==
    IF n = 0 THEN {{}}
    ELSE LET S == SubsetsUpTo(U, n - 1)
         IN  S \cup {s \cup {u} : s \in S, u \in U}

\* Basic blocks inside 0..MaxAddr of context k with loop count lt.
Blocks(k, lt) ==
    {n \in {CFGNode(a, e - a, k, lt, FALSE) : a \in BlockAddrs, e \in BlockAddrs} :
        n.size > 0}

\* The blocks of the main context, of which an initial graph holds up to MaxNodes.
BaseBlocks == Blocks("c1", 0)

\* Further nodes, of which an initial graph holds up to MaxExtra: blocks
\* revisited in a loop, blocks of another context, a SimProcedure node.
ExtraNodes ==
    Blocks("c1", 1) \cup Blocks("c2", 0) \cup {CFGNode(0, 1, "c1", 0, TRUE)}

InitialNodeSets ==
    {B \cup X : B \in SubsetsUpTo(BaseBlocks, MaxNodes),
                X \in SubsetsUpTo(ExtraNodes, MaxExtra)}

InitEdgeData == {EdgeData("Ijk_Boring", {0}), EdgeData("Ijk_Call", {1})}

\* Edge sets over the nodes N: at most MaxEdges edges, one per (src, dst).
EdgeSets(N) ==
    {E \in SubsetsUpTo({[src |-> u, dst |-> v, data |-> d] :
                            u \in N, v \in N, d \in InitEdgeData}, MaxEdges) :
        \A e1 \in E, e2 \in E : (e1.src = e2.src /\ e1.dst = e2.dst) => e1 = e2}

\* Graphs in which one group is broken twice: the blocks [0,3) and [1,3)
\* overlap, so do [2,4) and [3,4), and the blocks [0,1) and [1,2) that the
\* truncations arrive at exist already and are joined by an edge.
ChainNodes ==
    {CFGNode(0, 1, "c1", 0, FALSE), CFGNode(1, 1, "c1", 0, FALSE),
     CFGNode(0, 3, "c1", 0, FALSE), CFGNode(1, 2, "c1", 0, FALSE),
     CFGNode(2, 2, "c1", 0, FALSE), CFGNode(3, 1, "c1", 0, FALSE)}
ChainGraphs ==
    {[nodes |-> ChainNodes,
      edges |-> {[src |-> CFGNode(0, 1, "c1", 0, FALSE),
                  dst |-> CFGNode(1, 1, "c1", 0, FALSE), data |-> d]}] :
        d \in InitEdgeData}

\* Some listing of a finite set.
SetToSeq(S) == CHOOSE s \in [1 .. Cardinality(S) -> S] : Range(s) = S

\* The indexes as graph construction leaves them: every node listed under
\* its address, and one node per simrun key.
InitialNodesByAddr(g) == [a \in Addrs |-> SetToSeq({n \in g.nodes : n.addr = a})]
InitialNodes(g) ==
    [k \in {SimrunKey(n) : n \in g.nodes} |->
        CHOOSE n \in g.nodes : SimrunKey(n) = k]

\* Whether two nodes of the graph differ in looping_times only.
HasTwins(g) ==
    \E m \in g.nodes, n \in g.nodes :
        m # n /\ [m EXCEPT !.looping_times = 0] = [n EXCEPT !.looping_times = 0]

Snapshot == [graph |-> graph, by_key |-> _nodes, by_addr |-> _nodes_by_addr]

\* The values of self._changed_functions: None, or a set of addresses.
NoneSet == [is_none |-> TRUE, addrs |-> {}]
AddrSet(S) == [is_none |-> FALSE, addrs |-> S]

\* No function analysis under way and an empty knowledge base.
RetIdle ==
    /\ kb_functions = << >>
    /\ hooks = << >>
    /\ _changed_functions = NoneSet
    /\ ret_pc = "idle"
    /\ todo = {}
    /\ changes = [functions_return |-> << >>, functions_do_not_return |-> << >>]
    /\ passes = 0
    /\ full_passes = 0
    /\ last_pass = "none"
    /\ entry_returning = << >>
    /\ settled = FALSE
    /\ changing_passes = 0

\* No query method called yet.
NoQuery == [op |-> "none", args |-> << >>]
NoResult == [raised |-> "", value |-> {}]
NoAction == [type |-> "none"]
QueryIdle ==
    /\ query = NoQuery
    /\ result = NoResult
    /\ queries = 0
    /\ sim_action = NoAction
    /\ action_args = << >>

\* make_functions() not running, on a binary without indirect jumps and PLT
\* stubs.
MfIdle ==
    /\ indirect_jumps = << >>
    /\ memory = << >>
    /\ plt_stubs = {}
    /\ tmp_functions = << >>
    /\ blockaddr_to_function = << >>
    /\ functions_to_remove = << >>
    /\ scan_todo = {}
    /\ scan_func = {}
    /\ last_addr = 0
    /\ endpoint_addr = 0
    /\ merge_todo = {}
    /\ function_nodes = {}
    /\ seed = {}
    /\ stack = << >>
    /\ traversed = {}
    /\ cur_edges = << >>
    /\ edge_idx = 0
    /\ function_address = << >>
    /\ functions_at_entry = << >>
    /\ mf_pc = "idle"

\* normalize() not running, on the CFG g.
NormIdle(g) ==
    /\ graph = g
    /\ _nodes = InitialNodes(g)
    /\ _nodes_by_addr = InitialNodesByAddr(g)
    /\ _normalize = FALSE
    /\ _normalized = FALSE
    /\ end_addresses = [t \in Tpls |-> {}]
    /\ tpl_to_find = NoneTpl
    /\ all_nodes = << >>
    /\ other_idx = 0
    /\ norm_pc = "idle"
    /\ caller = "none"
    /\ calls = 0
    /\ entry = [graph |-> g, by_key |-> InitialNodes(g), by_addr |-> InitialNodesByAddr(g)]
    /\ truncated = {}
    /\ hash_order = "asc"

InitNorm ==
    /\ RetIdle
    /\ MfIdle
    /\ QueryIdle
    /\ \/ \E N \in InitialNodeSets :
             \E E \in EdgeSets(N) : graph = [nodes |-> N, edges |-> E]
       \/ graph \in ChainGraphs
    /\ _nodes = InitialNodes(graph)
    /\ _nodes_by_addr = InitialNodesByAddr(graph)
    /\ _normalize \in BOOLEAN
    /\ _normalized = FALSE
    /\ end_addresses = [t \in Tpls |-> {}]
    /\ tpl_to_find = NoneTpl
    /\ all_nodes = << >>
    /\ other_idx = 0
    /\ norm_pc = "idle"
    /\ caller = "none"
    /\ calls = 0
    /\ entry = Snapshot
    /\ truncated = {}
    /\ hash_order \in IF HasTwins(graph) THEN {"asc", "desc"} ELSE {"asc"}

\* ------------------------------------------------------ normalize() steps
\* Entry of normalize(): lines 650-658.
NormalizeBegin(who) ==
    /\ norm_pc \in {"idle", "done"}
    /\ calls < MaxCalls
    /\ end_addresses' = EndAddresses(graph)
    /\ norm_pc' = "loop"
    /\ caller' = who
    /\ calls' = calls + 1
    /\ entry' = Snapshot
    /\ truncated' = {}
    /\ tpl_to_find' = NoneTpl
    /\ all_nodes' = << >>
    /\ other_idx' = 0
    /\ UNCHANGED <<graph, _nodes, _nodes_by_addr, _normalize, _normalized, hash_order>>
    /\ UNCHANGED <<retVars, mfVars, queryVars>>

\* A direct call of the public method normalize().
Normalize == NormalizeBegin("direct")

\* _post_analysis(): lines 100-105.
PostAnalysis ==
    /\ norm_pc \in {"idle", "done"}
    /\ IF _normalize /\ ~_normalized
       THEN NormalizeBegin("post_analysis")
       ELSE UNCHANGED <<normVars, retVars, mfVars, queryVars>>

\* Top of the while loop with a conflicting group left: lines 660-672.
PickGroup ==
    /\ norm_pc = "loop"
    /\ \E t \in Conflicts(end_addresses) :
          /\ tpl_to_find' = t
          /\ all_nodes' = SortedBySize(end_addresses[t], hash_order)
    /\ other_idx' = 2
    /\ norm_pc' = "break"
    /\ UNCHANGED <<graph, _nodes, _nodes_by_addr, _normalize, _normalized,
                   end_addresses, caller, calls, entry, truncated, hash_order>>
    /\ UNCHANGED <<retVars, mfVars, queryVars>>

\* One iteration of `for n in other_nodes` (lines 675-726); after the last
\* one the group is reset to the smallest node (line 728).
BreakNode ==
    /\ norm_pc = "break"
    /\ LET n    == all_nodes[other_idx]
           st   == NormState(graph, _nodes, _nodes_by_addr, end_addresses)
           st1  == TruncateNode(st, n, all_nodes, tpl_to_find[2], hash_order)
           last == other_idx = Len(all_nodes)
           st2  == IF last THEN ResetGroup(st1, tpl_to_find, all_nodes[1]) ELSE st1
       IN  /\ graph' = st2.graph
           /\ _nodes' = st2.by_key
           /\ _nodes_by_addr' = st2.by_addr
           /\ end_addresses' = st2.ea
           /\ truncated' = IF NewSize(n, all_nodes[1]) = 0 THEN truncated
                           ELSE truncated \cup {n}
           /\ IF last
              THEN /\ norm_pc' = "loop"
                   /\ tpl_to_find' = NoneTpl
                   /\ all_nodes' = << >>
                   /\ other_idx' = 0
              ELSE /\ norm_pc' = "break"
                   /\ other_idx' = other_idx + 1
                   /\ UNCHANGED <<tpl_to_find, all_nodes>>
    /\ UNCHANGED <<_normalize, _normalized, caller, calls, entry, hash_order>>
    /\ UNCHANGED <<retVars, mfVars, queryVars>>

\* The while loop ends: line 730.
NormalizeReturn ==
    /\ norm_pc = "loop"
    /\ Conflicts(end_addresses) = {}
    /\ _normalized' = TRUE
    /\ norm_pc' = "done"
    /\ UNCHANGED <<graph, _nodes, _nodes_by_addr, _normalize, end_addresses,
                   tpl_to_find, all_nodes, other_idx, caller, calls, entry,
                   truncated, hash_order>>
    /\ UNCHANGED <<retVars, mfVars, queryVars>>

NextNorm ==
    \/ Normalize
    \/ PostAnalysis
    \/ PickGroup
    \/ BreakNode
    \/ NormalizeReturn

vars == <<normVars, retVars, mfVars, queryVars>>

SpecNorm == InitNorm /\ [][NextNorm]_vars

\* ------------------------------------------- knowledge bases (inputs)
FuncAddrs == {10 * i : i \in 1 .. NumFuncs}

\* The function after f, cyclically.
NextFunc(f) == IF f = 10 * NumFuncs THEN 10 ELSE f + 10

\* Functions without a call: one returning block; one dead-end block; one
\* block looping on itself; a jump into a dead-end block.
LeafShapes(f) ==
    { Function(f, {f}, {f}, {}),
      Function(f, {f}, {}, {}),
      Function(f, {f}, {}, {TEdge(BlockNode(f), BlockNode(f), "transition")}),
      Function(f, {f, f + 1}, {},
               {TEdge(BlockNode(f), BlockNode(f + 1), "transition")}) }

\* Functions whose exits lead to function g: a call; a call with its
\* fall-through block, without and with an endpoint; a jump to a calling
\* block; jumps out of the function to a block of g that ends there, calls
\* g, or jumps on (reached from the first or the second block); a jump to
\* the hook of g.
CallShapes(f, g) ==
    { Function(f, {f}, {}, {TEdge(BlockNode(f), FuncNode(g), "call")}),
      Function(f, {f, f + 1}, {},
               {TEdge(BlockNode(f), FuncNode(g), "call"),
                TEdge(BlockNode(f), BlockNode(f + 1), "fake_return")}),
      Function(f, {f, f + 1}, {f + 1},
               {TEdge(BlockNode(f), FuncNode(g), "call"),
                TEdge(BlockNode(f), BlockNode(f + 1), "fake_return")}),
      Function(f, {f, f + 1}, {},
               {TEdge(BlockNode(f), BlockNode(f + 1), "transition"),
                TEdge(BlockNode(f + 1), FuncNode(g), "call")}),
      Function(f, {f}, {}, {TEdge(BlockNode(f), BlockNode(g), "transition")}),
      Function(f, {f}, {},
               {TEdge(BlockNode(f), BlockNode(g), "transition"),
                TEdge(BlockNode(g), FuncNode(g), "call")}),
      Function(f, {f}, {},
               {TEdge(BlockNode(f), BlockNode(g), "transition"),
                TEdge(BlockNode(g), BlockNode(g + 1), "transition")}),
      Function(f, {f, f + 1}, {},
               {TEdge(BlockNode(f), BlockNode(f + 1), "transition"),
                TEdge(BlockNode(f + 1), BlockNode(g), "transition"),
                TEdge(BlockNode(g), BlockNode(g + 1), "transition")}),
      Function(f, {f}, {}, {TEdge(BlockNode(f), HookNode(g), "transition")}) }

Shapes(f) ==
    LeafShapes(f) \cup CallShapes(f, NextFunc(f))
    \cup {Function(f, {f}, {}, {TEdge(BlockNode(f), FuncNode(g), "call")}) :
             g \in FuncAddrs \ {NextFunc(f)}}

HookKinds == {"unhooked", "no_ret", "ret", "no_attr"}

\* At most one function is hooked.
InitialHooks ==
    {h \in [FuncAddrs -> HookKinds] :
        Cardinality({f \in FuncAddrs : h[f] # "unhooked"}) <= 1}

\* Whether some block of the knowledge base has a successor that is no
\* Function, so that get_any_node() is consulted.
ConsultsCFG(kb) ==
    \E f \in DOMAIN kb : \E e \in kb[f].transition_graph :
        e.src.addr \notin kb[f].blocks /\ e.dst.kind # "func"

\* The CFGs of the function analysis: empty, or the one node an outside
\* block stands for, flagged no_ret or not.
RetGraphs(kb) ==
    {[nodes |-> {}, edges |-> {}]}
    \cup IF ConsultsCFG(kb)
         THEN {[nodes |-> {[CFGNode(a, 1, "c1", 0, FALSE) EXCEPT !.no_ret = nr]},
                edges |-> {}] : a \in {10, 11}, nr \in BOOLEAN}
         ELSE {}

InitRet ==
    /\ kb_functions \in {kb \in [FuncAddrs -> UNION {Shapes(f) : f \in FuncAddrs}] :
                            \A f \in FuncAddrs : kb[f] \in Shapes(f)}
    /\ hooks \in InitialHooks
    /\ \E g \in RetGraphs(kb_functions) : NormIdle(g)
    /\ MfIdle
    /\ QueryIdle
    /\ _changed_functions = NoneSet
    /\ ret_pc = "idle"
    /\ todo = {}
    /\ changes = [functions_return |-> << >>, functions_do_not_return |-> << >>]
    /\ passes = 0
    /\ full_passes = 0
    /\ last_pass = "none"
    /\ entry_returning = [f \in FuncAddrs |-> "None"]
    /\ settled = FALSE
    /\ changing_passes = 0

\* ------------------------------------ _analyze_function_features() steps
\* The values of self._changed_functions at entry.
ChangedChoices == {NoneSet} \cup {AddrSet(S) : S \in SUBSET FuncAddrs}

\* An entry that keeps the record of the pass before.
AnalyzeBeginKeepChanges(cf) ==
    /\ ret_pc = "idle"
    /\ passes < MaxPasses
    /\ _changed_functions' =
          IF cf.is_none THEN cf
          ELSE AddrSet(cf.addrs \cup UNION {Callers(kb_functions, a) : a \in cf.addrs})
    /\ todo' = IF cf.is_none THEN DOMAIN kb_functions
               ELSE cf.addrs \cup UNION {Callers(kb_functions, a) : a \in cf.addrs}
    /\ changes' = changes
    /\ ret_pc' = "visit"
    /\ passes' = passes + 1
    /\ last_pass' = "running"
    /\ entry_returning' = [f \in DOMAIN kb_functions |-> kb_functions[f].returning]
    /\ UNCHANGED <<kb_functions, hooks, full_passes, passVars>>
    /\ UNCHANGED <<normVars, mfVars, queryVars>>

\* Entry of _analyze_function_features(): lines 484-505.
AnalyzeBegin(cf) ==
    /\ ret_pc = "idle"
    /\ passes < MaxPasses
    /\ _changed_functions' =
          IF cf.is_none THEN cf
          ELSE AddrSet(cf.addrs \cup UNION {Callers(kb_functions, a) : a \in cf.addrs})
    /\ todo' = IF cf.is_none THEN DOMAIN kb_functions
               ELSE cf.addrs \cup UNION {Callers(kb_functions, a) : a \in cf.addrs}
    /\ changes' = [functions_return |-> << >>, functions_do_not_return |-> << >>]
    /\ ret_pc' = "visit"
    /\ passes' = passes + 1
    /\ last_pass' = "running"
    /\ entry_returning' = [f \in DOMAIN kb_functions |-> kb_functions[f].returning]
    /\ UNCHANGED <<kb_functions, hooks, full_passes, passVars>>
    /\ UNCHANGED <<normVars, mfVars, queryVars>>

AnalyzeFunctionFeatures == \E cf \in ChangedChoices : AnalyzeBegin(cf)

\* Whether the running pass has changed a returning flag.
FlagsChanged ==
    \E f \in DOMAIN kb_functions : kb_functions[f].returning # entry_returning[f]

\* One iteration of `for func in all_functions`: lines 508-636.
VisitFunction ==
    /\ ret_pc = "visit"
    /\ \E f \in todo : \E v \in VisitVerdicts(kb_functions, hooks, graph, f) :
          IF v = "raise"
          THEN /\ ret_pc' = "idle"
               /\ last_pass' = "raised"
               /\ todo' = {}
               /\ changing_passes' = IF _changed_functions.is_none /\ FlagsChanged
                                     THEN changing_passes + 1 ELSE changing_passes
               /\ UNCHANGED <<kb_functions, changes>>
          ELSE /\ todo' = todo \ {f}
               /\ kb_functions' =
                     IF v \in {"True", "False"}
                     THEN [kb_functions EXCEPT ![f].returning = v]
                     ELSE kb_functions
               /\ changes' =
                     IF v = "True"
                     THEN [changes EXCEPT !.functions_return = Append(@, f)]
                     ELSE IF v = "False"
                     THEN [changes EXCEPT !.functions_do_not_return = Append(@, f)]
                     ELSE changes
               /\ UNCHANGED <<ret_pc, last_pass, changing_passes>>
    /\ UNCHANGED <<hooks, _changed_functions, passes, full_passes, entry_returning,
                   settled>>
    /\ UNCHANGED <<normVars, mfVars, queryVars>>

\* `return changes`: line 638.
AnalyzeReturn ==
    /\ ret_pc = "visit"
    /\ todo = {}
    /\ ret_pc' = "idle"
    /\ last_pass' = "returned"
    /\ full_passes' = IF _changed_functions.is_none THEN full_passes + 1 ELSE full_passes
    /\ settled' = IF _changed_functions.is_none /\ ~FlagsChanged THEN TRUE ELSE settled
    /\ changing_passes' = IF _changed_functions.is_none /\ FlagsChanged
                          THEN changing_passes + 1 ELSE changing_passes
    /\ UNCHANGED <<kb_functions, hooks, _changed_functions, todo, changes, passes,
                   entry_returning>>
    /\ UNCHANGED <<normVars, mfVars, queryVars>>

\* Between two passes the traversal handler meets a return of function f
\* (lines 1023-1024): the returning block becomes an endpoint of f.  The
\* endpoints found before the first pass are part of the initial shapes.
AddReturnFrom ==
    /\ ret_pc = "idle"
    /\ passes >= 1
    /\ passes < MaxPasses
    /\ \E f \in DOMAIN kb_functions :
          /\ kb_functions[f].endpoints = {}
          /\ \E b \in kb_functions[f].blocks :
                /\ \A c \in kb_functions[f].blocks : c <= b
                /\ kb_functions' = [kb_functions EXCEPT ![f].endpoints = {b}]
    /\ settled' = FALSE
    /\ UNCHANGED <<hooks, _changed_functions, ret_pc, todo, changes, passes,
                   full_passes, last_pass, entry_returning, changing_passes>>
    /\ UNCHANGED <<normVars, mfVars, queryVars>>

NextRet ==
    \/ AnalyzeFunctionFeatures
    \/ VisitFunction
    \/ AnalyzeReturn
    \/ AddReturnFrom

SpecRet == InitRet /\ [][NextRet]_vars

\* =========================================================== make_functions()
\* Line 787: PLT stubs are aligned by 16.
PltAlign == 16
\* Line 889: how far below the endpoint a tail jump may land (0x40).
BackwardSlack == 64

\* ------------------------------------------- the knowledge base's mutators
\* An edge of a transition graph with its `outside` attribute.
FEdge(src, dst, type, outside) ==
    [src |-> src, dst |-> dst, type |-> type, outside |-> outside]

\* The Function the function manager creates on first use of an address.
NewFunction(addr, syscall) ==
    [Function(addr, {}, {}, {}) EXCEPT !.is_syscall = syscall]

\* kb.functions._function_map[faddr], created when missing.
FunctionAt(kb, faddr) == IF faddr \in DOMAIN kb THEN kb[faddr] ELSE NewFunction(faddr, FALSE)

\* kb.functions._add_node(faddr, node, syscall)
KbAddNode(kb, faddr, node, syscall) ==
    LET f == IF faddr \in DOMAIN kb THEN kb[faddr] ELSE NewFunction(faddr, syscall)
    IN  DictSet(kb, faddr, [f EXCEPT !.blocks = @ \cup {node}])

\* kb.functions._add_return_from(faddr, from_node, None)
KbAddReturnFrom(kb, faddr, from_node) ==
    DictSet(kb, faddr, [FunctionAt(kb, faddr) EXCEPT !.blocks = @ \cup {from_node},
                                                     !.endpoints = @ \cup {from_node}])

\* kb.functions._add_call_to(faddr, from_node, to_addr, None, syscall)
KbAddCallTo(kb, faddr, from_node, to_addr) ==
    DictSet(kb, faddr,
            [FunctionAt(kb, faddr) EXCEPT
                !.blocks = @ \cup {from_node},
                !.transition_graph =
                    @ \cup {FEdge(BlockNode(from_node), FuncNode(to_addr), "call", FALSE)}])

\* kb.functions._add_fakeret_to(faddr, from_node, to_node, confirmed=True, to_outside)
KbAddFakeretTo(kb, faddr, from_node, to_node, to_outside) ==
    DictSet(kb, faddr,
            [FunctionAt(kb, faddr) EXCEPT
                !.blocks = @ \cup {from_node} \cup (IF to_outside THEN {} ELSE {to_node}),
                !.transition_graph =
                    @ \cup {FEdge(BlockNode(from_node), BlockNode(to_node),
                                  "fake_return", to_outside)}])

\* kb.functions._add_transition_to(faddr, from_node, to_node)
KbAddTransitionTo(kb, faddr, from_node, to_node) ==
    DictSet(kb, faddr,
            [FunctionAt(kb, faddr) EXCEPT
                !.blocks = @ \cup {from_node, to_node},
                !.transition_graph =
                    @ \cup {FEdge(BlockNode(from_node), BlockNode(to_node),
                                  "transition", FALSE)}])

\* kb.functions._add_outside_transition_to(faddr, from_node, to_addr)
KbAddOutsideTransitionTo(kb, faddr, from_node, to_addr) ==
    DictSet(kb, faddr,
            [FunctionAt(kb, faddr) EXCEPT
                !.blocks = @ \cup {from_node},
                !.transition_graph =
                    @ \cup {FEdge(BlockNode(from_node), FuncNode(to_addr),
                                  "transition", TRUE)}])

\* ------------------------------------------------------ _addr_to_function()
\* The state the handler works on: the function collection and the
\* block -> function map (a Function is named by its address).
FnState(kb, b2f) == [kb |-> kb, b2f |-> b2f]

\* Lines 941-944: the address is hooked by a SimProcedure that is a syscall.
IsSyscallHook(hks, addr) == addr \in DOMAIN hks /\ hks[addr] = "syscall"

\* Lines 937-957: the state afterwards (st) and the Function returned (f).
AddrToFunction(st, addr, known_functions, hks) ==
    IF addr \in DOMAIN st.b2f
    THEN [st |-> st, f |-> st.b2f[addr]]
    ELSE LET kb1 == KbAddNode(st.kb, addr, addr, IsSyscallHook(hks, addr))
             kb2 == IF addr \in DOMAIN known_functions
                    THEN [kb1 EXCEPT ![addr].returning = known_functions[addr].returning]
                    ELSE kb1
         IN  [st |-> FnState(kb2, DictSet(st.b2f, addr, addr)), f |-> addr]

\* ------------------------------------------------ _graph_traversal_handler()
SysKinds == {"Ijk_Sys_syscall"}
\* jumpkind == 'Ijk_Call' or jumpkind.startswith('Ijk_Sys')
IsCallKind(jumpkind) == jumpkind = "Ijk_Call" \/ jumpkind \in SysKinds

\* `data` and `dst` being None.
NoData == EdgeData("None", NoStmtIdx)

\* A call edge handled with a fake return whenever the callee is not known
\* not to return.
HandleCallUnlessNoReturn(st, src_function, src, dst, known_functions, hks) ==
    LET r  == AddrToFunction(st, dst.addr, known_functions, hks)
        s1 == [r.st EXCEPT !.kb = KbAddCallTo(@, src_function, src.addr, dst.addr)]
        returning_target == src.addr + src.size
        b2f == IF returning_target \in DOMAIN s1.b2f THEN s1.b2f
               ELSE DictSet(s1.b2f, returning_target, src_function)
        to_outside == b2f[returning_target] # src_function
    IN  IF s1.kb[r.f].returning # "False"
        THEN FnState(KbAddFakeretTo(s1.kb, src_function, src.addr, returning_target,
                                    to_outside), b2f)
        ELSE s1

\* Lines 1031-1049: a call or syscall edge.
HandleCall(st, src_function, src, dst, known_functions, hks) ==
    LET r  == AddrToFunction(st, dst.addr, known_functions, hks)
        s1 == [r.st EXCEPT !.kb = KbAddCallTo(@, src_function, src.addr, dst.addr)]
        returning_target == src.addr + src.size
        b2f == IF returning_target \in DOMAIN s1.b2f THEN s1.b2f
               ELSE DictSet(s1.b2f, returning_target, src_function)
        to_outside == b2f[returning_target] # src_function
    IN  IF s1.kb[r.f].returning = "True"
        THEN FnState(KbAddFakeretTo(s1.kb, src_function, src.addr, returning_target,
                                    to_outside), b2f)
        ELSE s1

\* Lines 1051-1068: a direct jump.
HandleBoring(st, src_function, src, dst, known_functions, hks) ==
    IF \/ dst.addr \in DOMAIN known_functions
       \/ (dst.addr \in DOMAIN st.b2f /\ st.b2f[dst.addr] # src_function)
    THEN AddrToFunction(
             [st EXCEPT !.kb = KbAddOutsideTransitionTo(@, src_function, src.addr, dst.addr)],
             dst.addr, known_functions, hks).st
    ELSE FnState(KbAddTransitionTo(st.kb, src_function, src.addr, dst.addr),
                 IF dst.addr \in DOMAIN st.b2f THEN st.b2f
                 ELSE DictSet(st.b2f, dst.addr, src_function))

\* A fake return that hands its destination to the source's function in
\* every case.
HandleFakeRetReclaims(st, src_function, src, dst) ==
    LET b2f == DictSet(st.b2f, dst.addr, src_function)
        to_outside == b2f[dst.addr] # src_function
    IN  FnState(KbAddFakeretTo(st.kb, src_function, src.addr, dst.addr, to_outside), b2f)

\* Lines 1070-1079: a fake return.
HandleFakeRet(st, src_function, src, dst) ==
    LET b2f == IF dst.addr \in DOMAIN st.b2f THEN st.b2f
               ELSE DictSet(st.b2f, dst.addr, src_function)
        to_outside == b2f[dst.addr] # src_function
    IN  FnState(KbAddFakeretTo(st.kb, src_function, src.addr, dst.addr, to_outside), b2f)

\* Lines 1014-1082: the handler on the node src (dst = NoNode, data = NoData
\* for a single node) or on the edge src -> dst.
GraphTraversalHandler(st, src, dst, data, known_functions, hks) ==
    LET r  == AddrToFunction(st, src.addr, known_functions, hks)
        src_function == r.f
        s1 == IF data # NoData /\ data.jumpkind = "Ijk_Ret"
              THEN [r.st EXCEPT !.kb = KbAddReturnFrom(@, src_function, src.addr)]
              ELSE r.st
    IN  IF data = NoData \/ dst = NoNode THEN s1
        ELSE IF IsCallKind(data.jumpkind)
        THEN HandleCall(s1, src_function, src, dst, known_functions, hks)
        ELSE IF data.jumpkind = "Ijk_Boring"
        THEN HandleBoring(s1, src_function, src, dst, known_functions, hks)
        ELSE IF data.jumpkind = "Ijk_FakeRet"
        THEN HandleFakeRet(s1, src_function, src, dst)
        ELSE s1

\* -------------------------------------------- _process_irrational_functions()
\* Lines 839-844: some block of the function ends in an indirect jump without
\* resolved targets.
HasUnresolvedJumps(function, ij) ==
    \E b \in function.blocks : b \in DOMAIN ij /\ ij[b] = {}

MaxOf(S) == CHOOSE a \in S : \A b \in S : b <= a
Max2(a, b) == IF a >= b THEN a ELSE b

\* The block of a function at address a: its address and size.
BlockAt(g, a) ==
    LET n == CHOOSE m \in g.nodes : m.addr = a
    IN  [addr |-> a, size |-> n.size]

\* What sim_run() finds at an address: a fault (AngrTranslationError,
\* AngrMemoryError), or a block with its size, the number of its successors
\* and the first successor's jump kind, symbolic flag and address.
Fault == [fault |-> TRUE, size |-> 0, nsucc |-> 0, jumpkind |-> "None",
          symbolic |-> FALSE, suc |-> 0]
TailBlock(size, nsucc, jumpkind, symbolic, suc) ==
    [fault |-> FALSE, size |-> size, nsucc |-> nsucc, jumpkind |-> jumpkind,
     symbolic |-> symbolic, suc |-> suc]

\* tmp_state.ip = last_addr; sim_run(): the block at the address, or a fault
\* where nothing can be lifted.
SimRun(mem, addr) == IF addr \in DOMAIN mem THEN mem[addr] ELSE Fault

\* A probe that goes on whatever the block jumps to.
ProbeExtendsAnyTarget(b, startpoint_addr, the_endpoint) ==
    /\ ~b.fault
    /\ b.nsucc = 1
    /\ b.jumpkind = "Ijk_Boring"
    /\ ~b.symbolic

\* Lines 878-891: the probed block b lets the loop go on.
ProbeExtends(b, startpoint_addr, the_endpoint) ==
    /\ ~b.fault
    /\ b.nsucc = 1
    /\ b.jumpkind = "Ijk_Boring"
    /\ ~b.symbolic
    /\ Max2(startpoint_addr, the_endpoint.addr - BackwardSlack) <= b.suc
    /\ b.suc < the_endpoint.addr + the_endpoint.size

RECURSIVE ProbeTail(_, _, _, _, _)
\* Lines 875-898: the endpoint after scanning forward from last_addr.
ProbeTail(mem, startpoint_addr, the_endpoint, from_addr, found_addr) ==
    LET b == SimRun(mem, from_addr)
    IN  IF ProbeExtends(b, startpoint_addr, the_endpoint)
        THEN ProbeTail(mem, startpoint_addr, the_endpoint,
                       from_addr + b.size, from_addr + b.size)
        ELSE found_addr

\* Lines 849-859: the span of a function before its tail is probed; ok is
\* FALSE when the function is passed over (no endpoint, or a startpoint not
\* below the endpoint).
SpanStart(function, g) ==
    IF function.endpoints = {}
    THEN [ok |-> FALSE, startpoint_addr |-> function.addr, endpoint_addr |-> function.addr]
    ELSE LET the_endpoint == BlockAt(g, MaxOf(function.endpoints))
             end0 == the_endpoint.addr + the_endpoint.size
         IN  [ok |-> function.addr < end0, startpoint_addr |-> function.addr,
              endpoint_addr |-> end0]

\* Lines 849-898: the span of a function with its tail.
FunctionSpan(function, g, mem) ==
    LET span == SpanStart(function, g)
    IN  IF ~span.ok THEN span
        ELSE [span EXCEPT !.endpoint_addr =
                 ProbeTail(mem, function.addr, BlockAt(g, MaxOf(function.endpoints)),
                           span.endpoint_addr, span.endpoint_addr)]

\* Lines 908-909: function f lies strictly inside the span.
InsideSpan(span, f) ==
    /\ span.startpoint_addr < f.addr
    /\ f.addr < span.endpoint_addr
    /\ \A b \in f.blocks : span.startpoint_addr < b /\ b < span.endpoint_addr

\* Lines 900-912: the functions inside the span of func_addr are marked
\* for removal; the new functions_to_remove.
MarkInside(functions, ftr, func_addr, span) ==
    LET inside == {f_addr \in DOMAIN functions :
                      /\ f_addr \notin DOMAIN ftr
                      /\ f_addr # func_addr
                      /\ InsideSpan(span, functions[f_addr])}
    IN  [a \in DOMAIN ftr \cup inside |-> IF a \in inside THEN func_addr ELSE ftr[a]]

\* Lines 915-921: one iteration of the merge loop; the new collection, map
\* and known functions.
MergeFunction(st, functions, to_remove, merge_with, hks) ==
    LET r == AddrToFunction(st, merge_with, functions, hks)
        blocks == functions[to_remove].blocks
    IN  [st |-> FnState(r.st.kb,
                        [b \in DOMAIN r.st.b2f \cup blocks |->
                            IF b \in blocks THEN r.f ELSE r.st.b2f[b]]),
         functions |-> [a \in DOMAIN functions \ {to_remove} |-> functions[a]]]

\* ---------------------------------------------------------- make_functions()
\* Seeds without the entries of the functions that were merged away.
FunctionNodesWithoutRemoved(g, functions, removed_functions) ==
    {e.dst : e \in {x \in g.edges : IsCallKind(x.data.jumpkind)}}
    \cup {n \in g.nodes : n.addr \in DOMAIN functions}

\* Lines 766-774: the nodes the traversals start from.
FunctionNodes(g, functions, removed_functions) ==
    {e.dst : e \in {x \in g.edges : IsCallKind(x.data.jumpkind)}}
    \cup {n \in g.nodes : n.addr \in DOMAIN functions \/ n.addr \in removed_functions}

\* A removal without the test that the rounded address differs.
StubsToRemoveAnyAddress(kb, plt) ==
    {fn \in DOMAIN kb :
        LET addr == fn - (fn % PltAlign)
        IN  addr \in DOMAIN kb /\ addr \in plt}

\* A removal that takes the functions PltAlign bytes above a PLT stub too.
StubsToRemoveNextSlot(kb, plt) ==
    {fn \in DOMAIN kb :
        LET addr == IF fn % PltAlign = 0 THEN fn - PltAlign ELSE fn - (fn % PltAlign)
        IN  addr \in DOMAIN kb /\ addr \in plt}

\* Lines 785-789: the functions behind a PLT stub.
StubsToRemove(kb, plt) ==
    {fn \in DOMAIN kb :
        LET addr == fn - (fn % PltAlign)
        IN  addr # fn /\ addr \in DOMAIN kb /\ addr \in plt}

\* The orders a dict of edges can be iterated in.
Orders(S) == {s \in [1 .. Cardinality(S) -> S] : Range(s) = S}

\* g.out_edges(n)
OutEdges(g, n) == {e \in g.edges : e.src = n}

\* The program counter after a step of a traversal.
BfsPc(stk, seeds) == IF stk = << >> /\ seeds = {} THEN "plt" ELSE "bfs"

\* ------------------------------------------- binaries and CFGs (inputs)
\* Largest number of blocks and of edges of a CFG that functions are made of.
NumBlocks == 3
MaxFnEdges == 2

\* The lowest block address, 0x1000.
FnBase == 256 * PltAlign
FnAddrs == {FnBase + i : i \in 0 .. NumBlocks - 1}
LastFnAddr == FnBase + NumBlocks - 1

\* A block of one byte; ret: the block ends in a return.
FnNode(a, ret) == [CFGNode(a, 1, "c1", 0, FALSE) EXCEPT !.has_return = ret]

FnEdge(u, v, jumpkind) == [src |-> u, dst |-> v, data |-> EdgeData(jumpkind, NoStmtIdx)]

CommonKinds == {"Ijk_Call", "Ijk_Boring", "Ijk_FakeRet"}
RareKinds == {"Ijk_Sys_syscall", "Ijk_Ret", "Ijk_NoDecode"}

OnePerPair(E) == \A e1 \in E, e2 \in E : (e1.src = e2.src /\ e1.dst = e2.dst) => e1 = e2

\* Edge sets over the nodes N: at most MaxFnEdges edges, one per (src, dst),
\* of the common jump kinds, or one edge of a rare kind to the next block
\* and common ones.
FnEdgeSets(N) ==
    LET common == {FnEdge(u, v, k) : u \in N, v \in N, k \in CommonKinds}
        rare   == {e \in {FnEdge(u, v, k) : u \in N, v \in N, k \in RareKinds} :
                      e.dst.addr = e.src.addr + 1}
    IN  {E \in SubsetsUpTo(common, MaxFnEdges) : OnePerPair(E)}
        \cup {E \in {{r} \cup C : r \in rare, C \in SubsetsUpTo(common, MaxFnEdges - 1)} :
                 OnePerPair(E)}

\* A function known before make_functions() with one block and no endpoint.
PlainFunction(a, returning) == [Function(a, {a}, {}, {}) EXCEPT !.returning = returning]

\* The blocks at the addresses A, those of R ending in a return.
FnNodes(A, R) == {FnNode(a, a \in R) : a \in A}

\* CFGs over the blocks at FnAddrs, the last of which may end in a return.
PlainGraphs ==
    UNION {{[nodes |-> N, edges |-> E] : E \in FnEdgeSets(N)} :
              N \in {FnNodes(FnAddrs, R) : R \in {{}, {LastFnAddr}}}}

\* Any of the blocks is a known function, all with the same returning flag;
\* the first block may be a PLT stub.
PlainInputs ==
    {[g   |-> g,
      kb  |-> [a \in K |-> PlainFunction(a, flag)],
      ij  |-> << >>,
      mem |-> << >>,
      plt |-> P] :
        g \in PlainGraphs,
        K \in SUBSET FnAddrs,
        flag \in {"None", "True", "False"},
        P \in {{}, {FnBase}}}

\* Two blocks PltAlign bytes apart with at most one edge; any of them is a
\* known function and any of them a PLT stub.
AlignedInputs ==
    {[g   |-> [nodes |-> FnNodes({FnBase, FnBase + PltAlign}, {}), edges |-> E],
      kb  |-> [a \in K |-> PlainFunction(a, "None")],
      ij  |-> << >>,
      mem |-> << >>,
      plt |-> P] :
        E \in {{}} \cup {{FnEdge(FnNode(FnBase, FALSE), FnNode(FnBase + PltAlign, FALSE), k)} :
                           k \in {"Ijk_Call", "Ijk_Boring"}},
        K \in SUBSET {FnBase, FnBase + PltAlign},
        P \in SUBSET {FnBase, FnBase + PltAlign}}

\* Functions as a CFG recovery with unresolved indirect jumps leaves them:
\* one block with or without a return, or two blocks the higher of which
\* returns.
OldShapes(a, A) ==
    {Function(a, {a}, {}, {}), Function(a, {a}, {a}, {})}
    \cup {Function(a, {a, b}, {b}, {}) : b \in {x \in A : x > a}}

\* No function at an address.
Absent == Function(0, {}, {}, {})

\* Two or three known functions over the blocks at A.
OldFunctionMaps(A) ==
    {[a \in {x \in A : c[x] # Absent} |-> c[a]] :
        c \in {d \in Choices([a \in A |-> OldShapes(a, A) \cup {Absent}]) :
                  Cardinality({x \in A : d[x] # Absent}) \in {2, 3}}}

\* The indirect jumps: unresolved ones in the first block, the second or
\* both, or a resolved one in the first.
IndirectJumpMaps ==
    {[b \in U |-> {}] : U \in {{FnBase}, {FnBase + 1}, {FnBase, FnBase + 1}}}
    \cup {[b \in {FnBase} |-> {FnBase + 1}]}

\* What sim_run() can interpret: nothing, or one of the last two blocks,
\* which jumps back to the second block.
Memories ==
    {<< >>}
    \cup {[a \in {t} |-> TailBlock(1, 1, "Ijk_Boring", FALSE, FnBase + 1)] :
             t \in {LastFnAddr, LastFnAddr + 1}}

\* CFGs without edges whose functions nest; a block that jumps is no
\* endpoint.
NestedInputs ==
    {inp \in {[g   |-> [nodes |-> FnNodes(FnAddrs \cup {LastFnAddr + 1}, {}),
                        edges |-> {}],
               kb  |-> kb,
               ij  |-> ij,
               mem |-> mem,
               plt |-> {}] :
                 kb \in OldFunctionMaps(FnAddrs \cup {LastFnAddr + 1}),
                 ij \in IndirectJumpMaps,
                 mem \in Memories} :
        \A f \in DOMAIN inp.kb : inp.kb[f].endpoints \cap DOMAIN inp.mem = {}}

\* How far below the lowest block the entry of a distant function lies.
FarOffset == 80

\* What sim_run() can find after the endpoint FnBase + 1 of a function: a
\* block that jumps to the endpoint, to the distant startpoint, to the
\* lowest address BackwardSlack allows or just below it, or just past the
\* endpoint; a block with two exits, with a call, or with a symbolic target.
TailBlocks ==
    {TailBlock(1, 1, "Ijk_Boring", FALSE, suc) :
        suc \in {FnBase + 1, FnBase - FarOffset, FnBase + 1 - BackwardSlack,
                 FnBase - BackwardSlack, FnBase + 2}}
    \cup {TailBlock(1, 2, "Ijk_Boring", FALSE, FnBase + 1),
          TailBlock(1, 1, "Ijk_Call", FALSE, FnBase + 1),
          TailBlock(1, 1, "Ijk_Boring", TRUE, FnBase + 1)}

\* The memories that hold such blocks at some of the addresses A.
TailMemories(A) ==
    UNION {[U -> TailBlocks] : U \in SUBSET A}

\* A function with an unresolved indirect jump that starts at FnBase or
\* FarOffset below it and ends in the block at FnBase + 1, a one-block
\* function after it, and what follows the endpoint in memory.
TailInputs ==
    {[g   |-> [nodes |-> FnNodes(FnAddrs \cup {start, LastFnAddr + 1}, {}),
               edges |-> {}],
      kb  |-> [a \in {start, other} |->
                  IF a = start THEN Function(start, {start, FnBase + 1}, {FnBase + 1}, {})
                  ELSE Function(other, {other}, {}, {})],
      ij  |-> [a \in {start} |-> {}],
      mem |-> mem,
      plt |-> {}] :
        start \in {FnBase, FnBase - FarOffset},
        other \in {LastFnAddr, LastFnAddr + 1},
        mem \in TailMemories({LastFnAddr, LastFnAddr + 1})}

InitMF ==
    /\ QueryIdle
    /\ \E inp \in PlainInputs \cup AlignedInputs \cup NestedInputs \cup TailInputs :
          /\ NormIdle(inp.g)
          /\ kb_functions = inp.kb
          /\ indirect_jumps = inp.ij
          /\ memory = inp.mem
          /\ plt_stubs = inp.plt
    /\ hooks = << >>
    /\ _changed_functions = NoneSet
    /\ ret_pc = "idle"
    /\ todo = {}
    /\ changes = [functions_return |-> << >>, functions_do_not_return |-> << >>]
    /\ passes = 0
    /\ full_passes = 0
    /\ last_pass = "none"
    /\ entry_returning = << >>
    /\ settled = FALSE
    /\ changing_passes = 0
    /\ tmp_functions = << >>
    /\ functions_at_entry = << >>
    /\ blockaddr_to_function = << >>
    /\ functions_to_remove = << >>
    /\ scan_todo = {}
    /\ scan_func = {}
    /\ last_addr = 0
    /\ endpoint_addr = 0
    /\ merge_todo = {}
    /\ function_nodes = {}
    /\ seed = {}
    /\ stack = << >>
    /\ traversed = {}
    /\ cur_edges = << >>
    /\ edge_idx = 0
    /\ function_address = << >>
    /\ mf_pc = "idle"

\* ---------------------------------------------------- make_functions() steps
\* Where make_functions() goes on after the first loop of
\* _process_irrational_functions().
AfterScan(remaining, ftr) ==
    IF remaining # {} THEN "scan" ELSE IF DOMAIN ftr # {} THEN "merge" ELSE "seeds"

\* Lines 755-764 and 831: the functions are set aside and the collection is
\* cleared.
MakeFunctions ==
    /\ mf_pc = "idle"
    /\ tmp_functions' = kb_functions
    /\ functions_at_entry' = kb_functions
    /\ kb_functions' = << >>
    /\ blockaddr_to_function' = << >>
    /\ functions_to_remove' = << >>
    /\ scan_todo' = DOMAIN kb_functions
    /\ mf_pc' = AfterScan(DOMAIN kb_functions, << >>)
    /\ UNCHANGED <<indirect_jumps, memory, plt_stubs, merge_todo, function_nodes, seed,
                   stack, traversed, cur_edges, edge_idx, function_address>>
    /\ UNCHANGED <<hooks, _changed_functions, ret_pc, todo, changes, passes, full_passes,
                   last_pass, entry_returning, passVars>>
    /\ UNCHANGED <<normVars, queryVars>>
    /\ UNCHANGED probeVars

\* The head of one iteration of `for func_addr, function in
\* functions.iteritems()`, lines 833-874: the function is passed over, or
\* the probing of its tail begins at its endpoint.
ScanStep ==
    /\ mf_pc = "scan"
    /\ \E func_addr \in scan_todo :
          LET function == tmp_functions[func_addr]
              span == SpanStart(function, graph)
          IN  /\ scan_todo' = scan_todo \ {func_addr}
              /\ IF \/ func_addr \in DOMAIN functions_to_remove
                    \/ ~HasUnresolvedJumps(function, indirect_jumps)
                    \/ ~span.ok
                 THEN /\ merge_todo' = IF scan_todo' = {} THEN DOMAIN functions_to_remove
                                       ELSE {}
                      /\ mf_pc' = AfterScan(scan_todo', functions_to_remove)
                      /\ UNCHANGED probeVars
                 ELSE /\ scan_func' = {func_addr}
                      /\ last_addr' = span.endpoint_addr
                      /\ endpoint_addr' = span.endpoint_addr
                      /\ mf_pc' = "probe"
                      /\ UNCHANGED merge_todo
    /\ UNCHANGED <<indirect_jumps, memory, plt_stubs, tmp_functions, functions_at_entry,
                   blockaddr_to_function, functions_to_remove, function_nodes, seed,
                   stack, traversed, cur_edges, edge_idx, function_address>>
    /\ UNCHANGED retVars
    /\ UNCHANGED <<normVars, queryVars>>

\* One iteration of the `while True` loop, lines 876-898: the block at
\* last_addr extends the span, or the loop is left and lines 900-912 mark
\* the functions inside the span.
ProbeStep ==
    /\ mf_pc = "probe"
    /\ \E func_addr \in scan_func :
          LET function == tmp_functions[func_addr]
              the_endpoint == BlockAt(graph, MaxOf(function.endpoints))
              b == SimRun(memory, last_addr)
          IN  IF ProbeExtends(b, function.addr, the_endpoint)
              THEN /\ endpoint_addr' = last_addr + b.size
                   /\ last_addr' = last_addr + b.size
                   /\ UNCHANGED <<scan_func, functions_to_remove, merge_todo, mf_pc>>
              ELSE /\ functions_to_remove' =
                         MarkInside(tmp_functions, functions_to_remove, func_addr,
                                    [ok |-> TRUE, startpoint_addr |-> function.addr,
                                     endpoint_addr |-> endpoint_addr])
                   /\ scan_func' = {}
                   /\ merge_todo' = IF scan_todo = {} THEN DOMAIN functions_to_remove'
                                    ELSE {}
                   /\ mf_pc' = AfterScan(scan_todo, functions_to_remove')
                   /\ UNCHANGED <<last_addr, endpoint_addr>>
    /\ UNCHANGED <<indirect_jumps, memory, plt_stubs, tmp_functions, functions_at_entry,
                   blockaddr_to_function, scan_todo, function_nodes, seed, stack,
                   traversed, cur_edges, edge_idx, function_address>>
    /\ UNCHANGED retVars
    /\ UNCHANGED <<normVars, queryVars>>

\* One iteration of `for to_remove, merge_with in functions_to_remove.iteritems()`:
\* lines 915-921.
MergeStep ==
    /\ mf_pc = "merge"
    /\ \E to_remove \in merge_todo :
          LET r == MergeFunction(FnState(kb_functions, blockaddr_to_function),
                                 tmp_functions, to_remove,
                                 functions_to_remove[to_remove], hooks)
          IN  /\ kb_functions' = r.st.kb
              /\ blockaddr_to_function' = r.st.b2f
              /\ tmp_functions' = r.functions
              /\ merge_todo' = merge_todo \ {to_remove}
              /\ mf_pc' = IF merge_todo' = {} THEN "seeds" ELSE "merge"
    /\ UNCHANGED <<indirect_jumps, memory, plt_stubs, functions_at_entry,
                   functions_to_remove, scan_todo, function_nodes, seed, stack, traversed,
                   cur_edges, edge_idx, function_address>>
    /\ UNCHANGED <<hooks, _changed_functions, ret_pc, todo, changes, passes, full_passes,
                   last_pass, entry_returning, passVars>>
    /\ UNCHANGED <<normVars, queryVars>>
    /\ UNCHANGED probeVars

\* Lines 766-774: the seeds are collected.
SeedNodes ==
    /\ mf_pc = "seeds"
    /\ function_nodes' = FunctionNodes(graph, tmp_functions, DOMAIN functions_to_remove)
    /\ mf_pc' = BfsPc(<< >>, function_nodes')
    /\ UNCHANGED <<indirect_jumps, memory, plt_stubs, tmp_functions, functions_at_entry,
                   blockaddr_to_function, functions_to_remove, scan_todo, merge_todo,
                   seed, stack, traversed, cur_edges, edge_idx, function_address>>
    /\ UNCHANGED retVars
    /\ UNCHANGED <<normVars, queryVars>>
    /\ UNCHANGED probeVars

\* Lines 779-780 and 973-974: the traversal of the next seed begins.
StartTraversal ==
    /\ mf_pc = "bfs"
    /\ stack = << >>
    /\ \E fn \in function_nodes :
          /\ \A m \in function_nodes : fn.addr <= m.addr
          /\ function_nodes' = function_nodes \ {fn}
          /\ seed' = {fn}
          /\ stack' = <<fn>>
          /\ traversed' = {}
    /\ UNCHANGED <<indirect_jumps, memory, plt_stubs, tmp_functions, functions_at_entry,
                   blockaddr_to_function, functions_to_remove, scan_todo, merge_todo,
                   cur_edges, edge_idx, function_address, mf_pc>>
    /\ UNCHANGED retVars
    /\ UNCHANGED <<normVars, queryVars>>
    /\ UNCHANGED probeVars

\* Lines 976-990: the first node of the stack is taken; a node that returns
\* or has no out-edge is handed to the handler.
PopNode ==
    /\ mf_pc = "bfs"
    /\ stack # << >>
    /\ LET n == Head(stack)
           st == FnState(kb_functions, blockaddr_to_function)
       IN  /\ stack' = Tail(stack)
           /\ traversed' = traversed \cup {n}
           /\ IF n \in traversed
              THEN /\ UNCHANGED <<kb_functions, blockaddr_to_function, cur_edges, edge_idx>>
                   /\ mf_pc' = BfsPc(stack', function_nodes)
              ELSE IF n.has_return \/ OutEdges(graph, n) = {}
              THEN LET data == IF n.has_return THEN EdgeData("Ijk_Ret", NoStmtIdx)
                               ELSE NoData
                       r == GraphTraversalHandler(st, n, NoNode, data, tmp_functions, hooks)
                   IN  /\ kb_functions' = r.kb
                       /\ blockaddr_to_function' = r.b2f
                       /\ UNCHANGED <<cur_edges, edge_idx>>
                       /\ mf_pc' = BfsPc(stack', function_nodes)
              ELSE /\ cur_edges' \in Orders(OutEdges(graph, n))
                   /\ edge_idx' = 1
                   /\ mf_pc' = "edges"
                   /\ UNCHANGED <<kb_functions, blockaddr_to_function>>
    /\ UNCHANGED <<indirect_jumps, memory, plt_stubs, tmp_functions, functions_at_entry,
                   functions_to_remove, scan_todo, merge_todo, function_nodes, seed,
                   function_address>>
    /\ UNCHANGED <<hooks, _changed_functions, ret_pc, todo, changes, passes, full_passes,
                   last_pass, entry_returning, passVars>>
    /\ UNCHANGED <<normVars, queryVars>>
    /\ UNCHANGED probeVars

\* [m for m in g.successors(n) if m not in traversed], in the order of the
\* out-edges.
UntraversedSuccessors(edges, done) ==
    LET Fresh(e) == e.dst \notin done
        fresh == SelectSeq(edges, Fresh)
    IN  [i \in 1 .. Len(fresh) |-> fresh[i].dst]

\* Lines 993-999: one iteration of the loop over the out-edges of n.
HandleEdge ==
    /\ mf_pc = "edges"
    /\ LET e == cur_edges[edge_idx]
           r == GraphTraversalHandler(FnState(kb_functions, blockaddr_to_function),
                                      e.src, e.dst, e.data, tmp_functions, hooks)
       IN  /\ kb_functions' = r.kb
           /\ blockaddr_to_function' = r.b2f
           /\ stack' = IF IsCallKind(e.data.jumpkind) THEN stack
                       ELSE stack \o UntraversedSuccessors(cur_edges, traversed)
           /\ IF edge_idx < Len(cur_edges)
              THEN /\ edge_idx' = edge_idx + 1
                   /\ UNCHANGED <<cur_edges, mf_pc>>
              ELSE /\ edge_idx' = 0
                   /\ cur_edges' = << >>
                   /\ mf_pc' = BfsPc(stack', function_nodes)
    /\ UNCHANGED <<indirect_jumps, memory, plt_stubs, tmp_functions, functions_at_entry,
                   functions_to_remove, scan_todo, merge_todo, function_nodes, seed,
                   traversed, function_address>>
    /\ UNCHANGED <<hooks, _changed_functions, ret_pc, todo, changes, passes, full_passes,
                   last_pass, entry_returning, passVars>>
    /\ UNCHANGED <<normVars, queryVars>>
    /\ UNCHANGED probeVars

\* Lines 784-792: the stubs after PLT entries are removed.
RemovePltStubs ==
    /\ mf_pc = "plt"
    /\ kb_functions' =
          [a \in DOMAIN kb_functions \ StubsToRemove(kb_functions, plt_stubs) |->
              kb_functions[a]]
    /\ mf_pc' = "update"
    /\ UNCHANGED <<indirect_jumps, memory, plt_stubs, tmp_functions, functions_at_entry,
                   blockaddr_to_function, functions_to_remove, scan_todo, merge_todo,
                   function_nodes, seed, stack, traversed, cur_edges, edge_idx,
                   function_address>>
    /\ UNCHANGED <<hooks, _changed_functions, ret_pc, todo, changes, passes, full_passes,
                   last_pass, entry_returning, passVars>>
    /\ UNCHANGED <<normVars, queryVars>>
    /\ UNCHANGED probeVars

\* Lines 794-797: CFGNode.function_address is updated.
UpdateFunctionAddress ==
    /\ mf_pc = "update"
    /\ function_address' =
          [n \in {m \in {_nodes[k] : k \in DOMAIN _nodes} :
                     m.addr \in DOMAIN blockaddr_to_function} |->
              blockaddr_to_function[n.addr]]
    /\ mf_pc' = "done"
    /\ UNCHANGED <<indirect_jumps, memory, plt_stubs, tmp_functions, functions_at_entry,
                   blockaddr_to_function, functions_to_remove, scan_todo, merge_todo,
                   function_nodes, seed, stack, traversed, cur_edges, edge_idx>>
    /\ UNCHANGED retVars
    /\ UNCHANGED <<normVars, queryVars>>
    /\ UNCHANGED probeVars

NextMF ==
    \/ MakeFunctions
    \/ ScanStep
    \/ ProbeStep
    \/ MergeStep
    \/ SeedNodes
    \/ StartTraversal
    \/ PopNode
    \/ HandleEdge
    \/ RemovePltStubs
    \/ UpdateFunctionAddress

SpecMF == InitMF /\ [][NextMF]_vars

\* ----------------------------------------------------------- query methods
\* What a call gives: the exception it raises ("" for none) and the value it
\* returns; a list is written as the set of its items and None as {}.
Raise(exc) == [raised |-> exc, value |-> {}]
Return(v) == [raised |-> "", value |-> v]

\* get_exit_stmt_idx(src_block, dst_block): lines 308-320.  The subscript
\* ['exit_stmt_idx'] of line 320 raises KeyError on a dict without the key.
GetExitStmtIdx(g, src_block, dst_block) ==
    LET found == {e \in g.edges : e.src = src_block /\ e.dst = dst_block}
    IN  IF found = {} THEN Raise("AngrCFGError")
        ELSE LET data == (CHOOSE e \in found : TRUE).data
             IN  IF data.exit_stmt_idx = NoStmtIdx THEN Raise("KeyError")
                 ELSE Return(data.exit_stmt_idx)

\* The values of the parameter is_syscall.
IsSyscallArgs == {"None", "True", "False"}

\* The is_syscall values of the nodes that get_any_node() accepts.
Accepted(is_syscall) == IF is_syscall = "None" THEN BOOLEAN ELSE {is_syscall = "True"}

\* get_all_nodes(addr, is_syscall): lines 254-273; the three branches of
\* lines 266-271 in their order.
GetAllNodes(g, addr, is_syscall) ==
    {cfg_node \in g.nodes :
        /\ cfg_node.addr = addr
        /\ IF is_syscall = "True" /\ cfg_node.is_syscall THEN TRUE
           ELSE IF is_syscall = "False" /\ ~cfg_node.is_syscall THEN TRUE
           ELSE TRUE}

\* get_predecessors() that never leaves a predecessor out.
GetPredecessorsKeepFakeRet(g, cfgnode, excluding_fakeret) ==
    {e.src : e \in InEdges(g, cfgnode)}

\* get_predecessors(cfgnode, excluding_fakeret): lines 122-144.
\* in_edges_iter([cfgnode]) skips a node that is not in the graph.
GetPredecessors(g, cfgnode, excluding_fakeret) ==
    IF ~excluding_fakeret
    THEN IF cfgnode \in g.nodes THEN {e.src : e \in InEdges(g, cfgnode)} ELSE {}
    ELSE {e.src : e \in {x \in InEdges(g, cfgnode) : x.data.jumpkind # "Ijk_FakeRet"}}

\* get_successors(basic_block, excluding_fakeret): lines 146-158.
GetSuccessors(g, basic_block, excluding_fakeret) ==
    IF ~excluding_fakeret
    THEN IF basic_block \in g.nodes THEN {e.dst : e \in OutEdges(g, basic_block)} ELSE {}
    ELSE {e.dst : e \in {x \in OutEdges(g, basic_block) :
                            x.data.jumpkind # "Ijk_FakeRet"}}

\* The nodes of the graphs that are queried: blocks, a block revisited in a
\* loop, a block of another context, and syscall SimProcedures, one of them
\* of unknown size.
QueryNodes ==
    {CFGNode(0, 1, "c1", 0, FALSE), CFGNode(0, 2, "c1", 0, FALSE),
     CFGNode(1, 1, "c1", 0, FALSE), CFGNode(0, 1, "c1", 1, FALSE),
     CFGNode(0, 1, "c2", 0, FALSE),
     [CFGNode(0, 0, "c1", 0, TRUE) EXCEPT !.is_syscall = TRUE],
     [CFGNode(1, 1, "c2", 0, TRUE) EXCEPT !.is_syscall = TRUE]}

QueryEdgeData == InitEdgeData \cup {EdgeData("Ijk_FakeRet", {0})}

\* Edge sets over the nodes N: at most MaxQEdges edges, one per (src, dst).
QueryEdgeSets(N) ==
    {E \in SubsetsUpTo({[src |-> u, dst |-> v, data |-> d] :
                            u \in N, v \in N, d \in QueryEdgeData}, MaxQEdges) :
        \A e1 \in E, e2 \in E : (e1.src = e2.src /\ e1.dst = e2.dst) => e1 = e2}

QueryGraphs ==
    UNION {{[nodes |-> N, edges |-> E] : E \in QueryEdgeSets(N)} :
              N \in SubsetsUpTo(QueryNodes, MaxQNodes)}

InitQuery ==
    /\ RetIdle
    /\ MfIdle
    /\ QueryIdle
    /\ \E g \in QueryGraphs : NormIdle(g)

\* A call of the query method op with the arguments args that gives res,
\* made while normalize() is not running.
Query(op, args, res) ==
    /\ norm_pc \in {"idle", "done"}
    /\ queries < MaxQueries
    /\ query' = [op |-> op, args |-> args]
    /\ result' = res
    /\ queries' = queries + 1
    /\ UNCHANGED <<sim_action, action_args>>
    /\ UNCHANGED <<normVars, retVars, mfVars>>

QueryExitStmtIdx ==
    \E src_block \in QueryNodes, dst_block \in QueryNodes :
        Query("get_exit_stmt_idx", <<src_block, dst_block>>,
              GetExitStmtIdx(graph, src_block, dst_block))

QueryAllNodes ==
    \E addr \in BlockAddrs, is_syscall \in IsSyscallArgs :
        Query("get_all_nodes", <<addr, is_syscall>>,
              Return(GetAllNodes(graph, addr, is_syscall)))

\* get_any_node() returns the first matching node of graph.nodes_iter(),
\* whose order is arbitrary, or None.
QueryAnyNode ==
    \E addr \in BlockAddrs, is_syscall \in IsSyscallArgs, anyaddr \in BOOLEAN :
        LET found == GetAnyNode(graph, addr, Accepted(is_syscall), anyaddr)
        IN  \E v \in IF found = {} THEN {{}} ELSE {{n} : n \in found} :
               Query("get_any_node", <<addr, is_syscall, anyaddr>>, Return(v))

QueryPredecessors ==
    \E cfgnode \in QueryNodes, excluding_fakeret \in BOOLEAN :
        Query("get_predecessors", <<cfgnode, excluding_fakeret>>,
              Return(GetPredecessors(graph, cfgnode, excluding_fakeret)))

QuerySuccessors ==
    \E basic_block \in QueryNodes, excluding_fakeret \in BOOLEAN :
        Query("get_successors", <<basic_block, excluding_fakeret>>,
              Return(GetSuccessors(graph, basic_block, excluding_fakeret)))

NextQuery ==
    \/ Normalize
    \/ PickGroup
    \/ BreakNode
    \/ NormalizeReturn
    \/ QueryExitStmtIdx
    \/ QueryAllNodes
    \/ QueryAnyNode
    \/ QueryPredecessors
    \/ QuerySuccessors

SpecQuery == InitQuery /\ [][NextQuery]_vars

\* ------------------------------------------------------------ SimActionData
\* The values handed to the constructor as an operand: None, a Python
\* integer, another expression, or a SimActionObject that carries the
\* dependencies of its expression.
NoneValue == [kind |-> "None", value |-> 0, reg_deps |-> {}, tmp_deps |-> {}]
IntValue(i) == [kind |-> "int", value |-> i, reg_deps |-> {}, tmp_deps |-> {}]
ExprValue(e) == [kind |-> "expr", value |-> e, reg_deps |-> {}, tmp_deps |-> {}]
SimActionObject(v, reg_deps, tmp_deps) ==
    [kind |-> "SimActionObject", value |-> v, reg_deps |-> reg_deps, tmp_deps |-> tmp_deps]

\* SimAction._make_object(v): lines 45-52.
MakeObject(v) ==
    IF v.kind = "None" THEN v
    ELSE IF v.kind = "SimActionObject" THEN v
    ELSE SimActionObject(v.value, {}, {})

\* SimActionData.__init__(): lines 123-143.  tmp is {} for None and {t} for
\* the slot t; so is offset.
SimActionData(region_type, action, tmp, addr, size, data, condition, fallback, fd) ==
    [type      |-> region_type,
     action    |-> action,
     _reg_dep  |-> IF addr.kind = "None" \/ action # "read" \/ addr.kind # "int"
                   THEN {} ELSE {addr.value},
     _tmp_dep  |-> IF tmp = {} \/ action # "read" THEN {} ELSE tmp,
     tmp       |-> tmp,
     offset    |-> IF addr.kind = "int" /\ region_type = "reg" THEN {addr.value} ELSE {},
     addr      |-> MakeObject(addr),
     size      |-> MakeObject(size),
     data      |-> MakeObject(data),
     condition |-> MakeObject(condition),
     fallback  |-> MakeObject(fallback),
     fd        |-> MakeObject(fd)]

\* SimActionData.all_objects: lines 145-147.
AllObjects(a) ==
    SelectSeq(<<a.addr, a.size, a.data, a.condition, a.fallback, a.fd>>,
              LAMBDA o : o.kind # "None")

\* frozenset.union(*sets): the unbound method needs one argument at least.
FrozensetUnion(sets) ==
    IF Len(sets) = 0 THEN Raise("TypeError")
    ELSE Return(UNION {sets[i] : i \in 1 .. Len(sets)})

\* SimAction.tmp_deps and SimAction.reg_deps: lines 65-71.
SimActionTmpDeps(a) ==
    FrozensetUnion([i \in 1 .. Len(AllObjects(a)) |-> AllObjects(a)[i].tmp_deps])
SimActionRegDeps(a) ==
    FrozensetUnion([i \in 1 .. Len(AllObjects(a)) |-> AllObjects(a)[i].reg_deps])

\* SimActionData.tmp_deps and SimActionData.reg_deps: lines 149-155.
TmpDeps(a) ==
    LET super == SimActionTmpDeps(a)
    IN  IF super.raised # "" THEN super ELSE Return(super.value \cup a._tmp_dep)
RegDeps(a) ==
    LET super == SimActionRegDeps(a)
    IN  IF super.raised # "" THEN super ELSE Return(super.value \cup a._reg_dep)

\* The arguments of the constructor: region_type, action, tmp, and the
\* operands addr, size, data, condition, fallback, fd.
ActionArgs ==
    {"tmp", "reg", "mem"} \X {"read", "write"} \X {{}, {3}}
    \X {NoneValue, IntValue(8), ExprValue(1), SimActionObject(1, {16}, {3})}
    \X {NoneValue, IntValue(4)}
    \X {NoneValue, ExprValue(2), SimActionObject(2, {24}, {5})}
    \X {NoneValue, SimActionObject(3, {16}, {})}
    \X {NoneValue, SimActionObject(4, {}, {7})}
    \X {NoneValue, IntValue(1)}

InitAction ==
    /\ RetIdle
    /\ MfIdle
    /\ NormIdle([nodes |-> {}, edges |-> {}])
    /\ query = NoQuery
    /\ result = NoResult
    /\ queries = 0
    /\ action_args \in ActionArgs
    /\ sim_action = SimActionData(action_args[1], action_args[2], action_args[3],
                                  action_args[4], action_args[5], action_args[6],
                                  action_args[7], action_args[8], action_args[9])

\* A read of the property reg_deps (tmp_deps) of the action.
ReadRegDeps == Query("reg_deps", << >>, RegDeps(sim_action))
ReadTmpDeps == Query("tmp_deps", << >>, TmpDeps(sim_action))

NextAction ==
    \/ ReadRegDeps
    \/ ReadTmpDeps

SpecAction == InitAction /\ [][NextAction]_vars

\* ------------------------------------------------------------ SimActionExit
\* SimActionExit.__init__(): lines 90-100.  exit_type is {} for None and
\* {t} for the tag t.
SimActionExit(target, condition, exit_type) ==
    [type      |-> "exit",
     exit_type |-> IF exit_type # {} THEN CHOOSE t \in exit_type : TRUE
                   ELSE IF condition.kind = "None" THEN "conditional"
                   ELSE "default",
     target    |-> MakeObject(target),
     condition |-> MakeObject(condition)]

\* SimActionExit.all_objects: lines 105-107.
ExitAllObjects(a) == SelectSeq(<<a.target, a.condition>>, LAMBDA o : o.kind # "None")

\* SimAction.tmp_deps and SimAction.reg_deps of an exit: lines 65-71.
ExitTmpDeps(a) ==
    FrozensetUnion([i \in 1 .. Len(ExitAllObjects(a)) |-> ExitAllObjects(a)[i].tmp_deps])
ExitRegDeps(a) ==
    FrozensetUnion([i \in 1 .. Len(ExitAllObjects(a)) |-> ExitAllObjects(a)[i].reg_deps])

\* The arguments of the constructor: target, condition, exit_type.
ExitArgs ==
    {NoneValue, IntValue(8), ExprValue(1), SimActionObject(1, {16}, {3})}
    \X {NoneValue, IntValue(1), ExprValue(2), SimActionObject(2, {24}, {5})}
    \X {{}, {"conditional"}, {"default"}, {"syscall"}}

InitExit ==
    /\ RetIdle
    /\ MfIdle
    /\ NormIdle([nodes |-> {}, edges |-> {}])
    /\ query = NoQuery
    /\ result = NoResult
    /\ queries = 0
    /\ action_args \in ExitArgs
    /\ sim_action = SimActionExit(action_args[1], action_args[2], action_args[3])

\* _desc() of the exit (lines 102-103), and a read of its properties.
Desc == Query("_desc", << >>, Return({sim_action.exit_type}))
ReadExitRegDeps == Query("reg_deps", << >>, ExitRegDeps(sim_action))
ReadExitTmpDeps == Query("tmp_deps", << >>, ExitTmpDeps(sim_action))

NextExit ==
    \/ Desc
    \/ ReadExitRegDeps
    \/ ReadExitTmpDeps

SpecExit == InitExit /\ [][NextExit]_vars

\* ================================================================ claims
\* ---------------------------------------------------------- normalize()
\* normalize() has returned.
Returned == norm_pc = "done"

RangeOf(n) == n.addr .. (n.addr + n.size - 1)
Overlap(m, n) == RangeOf(m) \cap RangeOf(n) # {}

\* The nodes of g that are no SimProcedure.
BasicBlocks(g) == {n \in g.nodes : ~n.is_simprocedure}

\* Overlapping nodes of one context share their end address.
SharedEnd(g) ==
    \A m \in BasicBlocks(g), n \in BasicBlocks(g) :
        (m # n /\ m.callstack_key = n.callstack_key /\ Overlap(m, n))
            => m.addr + m.size = n.addr + n.size

Disjoint(g) ==
    \A m \in BasicBlocks(g), n \in BasicBlocks(g) :
        (m # n /\ m.callstack_key = n.callstack_key) => ~Overlap(m, n)

\* The addresses covered by the blocks of context k.
Cover(g, k) == UNION {RangeOf(n) : n \in {m \in BasicBlocks(g) : m.callstack_key = k}}

\* C1: after normalize() returns, distinct non-simprocedure nodes of one
\* context have disjoint address ranges, for every graph whose overlapping
\* same-context nodes shared one end address when normalize() was entered.
C1_NoOverlapAfterNormalize ==
    (Returned /\ SharedEnd(entry.graph)) => Disjoint(graph)

\* C2: a second normalize() right after the first leaves the graph (nodes,
\* edges with their data) and both indexes as the first call left them.
C2_NormalizeIdempotent ==
    (Returned /\ calls = 2) => Snapshot = entry

\* C3: a node that normalize() truncated is no member of the graph when
\* normalize() returns.
C3_TruncatedNodeRemoved ==
    Returned => truncated \cap graph.nodes = {}

\* C4: normalize() loses no coverage: per context the addresses covered by
\* the non-simprocedure nodes are the same at entry and at return, the
\* SimProcedure nodes are the same, and so are the blocks of every context
\* that had no conflicting group.
C4_CoveragePreserved ==
    Returned =>
        /\ \A k \in CallstackKeys : Cover(graph, k) = Cover(entry.graph, k)
        /\ {n \in graph.nodes : n.is_simprocedure}
              = {n \in entry.graph.nodes : n.is_simprocedure}
        /\ \A k \in CallstackKeys :
              (\A t \in Conflicts(EndAddresses(entry.graph)) : t[2] # k)
                  => {n \in BasicBlocks(graph) : n.callstack_key = k}
                        = {n \in BasicBlocks(entry.graph) : n.callstack_key = k}

\* normalize() has returned after truncating a node, in a graph that also
\* holds a SimProcedure node or a block of the second context.
C4_Witness ==
    /\ Returned
    /\ truncated # {}
    /\ \E n \in graph.nodes : n.is_simprocedure \/ n.callstack_key = "c2"

\* The result of the run that resolves the groups in ascending (end
\* address, callstack key) order, from the state normalize() was entered in.
CanonicalResult ==
    NormalizeInOrder(NormState(entry.graph, entry.by_key, entry.by_addr,
                               EndAddresses(entry.graph)), hash_order)

\* C5: whatever order the conflicting groups are picked in, normalize()
\* ends with the nodes, the edges and both indexes of the run that picks
\* them in canonical order.
C5_OrderIndependent ==
    Returned =>
        /\ graph = CanonicalResult.graph
        /\ _nodes = CanonicalResult.by_key
        /\ _nodes_by_addr = CanonicalResult.by_addr

\* The nodes normalize() still has to look at: the tracked nodes, without
\* the members of the group being broken that the loop is done with.
PendingNodes ==
    IF norm_pc = "break"
    THEN UNION {end_addresses[t] : t \in Tpls \ {tpl_to_find}}
         \cup {all_nodes[1]}
         \cup {all_nodes[i] : i \in other_idx .. Len(all_nodes)}
    ELSE UNION {end_addresses[t] : t \in Tpls}

RECURSIVE SizesUpTo(_, _)
\* The sum of the sizes of the nodes of S that are k at most.
SizesUpTo(S, k) ==
    IF k = 0 THEN 0
    ELSE k * Cardinality({n \in S : n.size = k}) + SizesUpTo(S, k - 1)

\* The sum of the sizes of the nodes of S (a block lies inside 0..MaxAddr).
SumSizes(S) == SizesUpTo(S, MaxAddr + 1)

\* A natural number that every step of the loop of normalize() lowers.
Variant == 2 * SumSizes(PendingNodes) + (IF norm_pc = "loop" THEN 1 ELSE 0)

\* A step inside the loop lowers Variant or returns.
LoopStepLowersVariant ==
    norm_pc \in {"loop", "break"}
        => (norm_pc' = "done" \/ (Variant' < Variant /\ Variant' >= 0))

\* A step in which _post_analysis() enters normalize() is taken with
\* normalization requested and not done yet.
PostAnalysisGuarded ==
    (norm_pc \in {"idle", "done"} /\ norm_pc' = "loop" /\ caller' = "post_analysis")
        => (_normalize /\ ~_normalized)

\* What holds when normalize() has returned.
ReturnedNormalized ==
    Returned =>
        /\ _normalized
        /\ \A t \in Tpls : Cardinality(end_addresses[t]) <= 1
        /\ \A n \in BasicBlocks(entry.graph) :
              Cardinality(end_addresses[<<n.addr + n.size, n.callstack_key>>]) = 1

\* Inside the loop a step is possible: at its top a conflicting group has
\* nodes to break (or the loop ends), inside a group the node to break
\* exists.
LoopCanStep ==
    /\ norm_pc = "loop" =>
          \A t \in Conflicts(end_addresses) :
              Len(SortedBySize(end_addresses[t], hash_order)) >= 2
    /\ norm_pc = "break" => (other_idx >= 2 /\ other_idx <= Len(all_nodes))

\* C6: normalize() terminates (inside the loop a step is always possible,
\* and every step lowers a natural number or returns); when it returns the
\* flag is set and every tracked group has exactly one member; and
\* _post_analysis() enters normalize() only when normalization was
\* requested and the flag is still false.
C6_NormalizeTerminates ==
    /\ []LoopCanStep
    /\ [][LoopStepLowersVariant]_vars
    /\ []ReturnedNormalized
    /\ [][PostAnalysisGuarded]_vars

\* normalize(), entered from _post_analysis(), has returned after
\* truncating a node.
C6_Witness ==
    /\ Returned
    /\ caller = "post_analysis"
    /\ truncated # {}

\* ------------------------------------------ _analyze_function_features()
\* Function f is visited by this step of the loop over all_functions.
Visited(f) ==
    /\ ret_pc = "visit"
    /\ f \in todo
    /\ f \notin todo'
    /\ ret_pc' = "visit"

\* Function f is one of all_functions of the current pass.
InPass(f) == _changed_functions.is_none \/ f \in _changed_functions.addrs

\* No step changes a returning flag that is True or False.
FlagsKept ==
    \A f \in DOMAIN kb_functions :
          kb_functions[f].returning # "None"
              => kb_functions'[f].returning = kb_functions[f].returning

\* C7: a returning flag that is True or False is never changed again.
C7_ReturningMonotone == [][FlagsKept]_vars

\* A function was marked non-returning, gained an endpoint afterwards, and
\* a later pass has visited it again.
C7_Witness ==
    /\ ret_pc = "visit"
    /\ passes >= 2
    /\ \E f \in DOMAIN kb_functions :
          /\ InPass(f)
          /\ f \notin todo
          /\ kb_functions[f].returning = "False"
          /\ kb_functions[f].endpoints # {}

\* Function func has no endpoint and leaves only through calls of B: its
\* other edges stay inside it, and a block without out-edges is only the
\* fall-through of such a call.
OnlyExitCalls(func, B) ==
    /\ func.endpoints = {}
    /\ \E e \in func.transition_graph : e.type = "call"
    /\ \A e \in func.transition_graph :
          \/ e.type = "call" /\ e.dst = FuncNode(B)
          \/ e.type \in {"transition", "fake_return"} /\ e.dst \in LocalNodes(func)
    /\ \A n \in LocalNodes(func) :
          TGOutEdges(func, n) = {}
              => \A e \in TGInEdges(func, n) : e.type = "fake_return"

\* C8: a function A without endpoints whose only exit is a call of B, B
\* having no endpoints and a hook flagged NO_RET, is marked non-returning
\* once two passes over all functions have returned.
C8_CallerOfNoReturn ==
    \A A \in DOMAIN kb_functions, B \in DOMAIN kb_functions :
        ( /\ A # B
          /\ hooks[A] = "unhooked"
          /\ OnlyExitCalls(kb_functions[A], B)
          /\ hooks[B] = "no_ret"
          /\ kb_functions[B].endpoints = {}
          /\ full_passes >= 2 )
        => kb_functions[A].returning = "False"

\* The block at address a is in the CFG and flagged no_ret.
NoRetBlock(g, func, a) ==
    /\ GetAnyNode(g, a, {func.is_syscall}, FALSE) # {}
    /\ \A n \in GetAnyNode(g, a, {func.is_syscall}, FALSE) : n.no_ret

\* The successor e.dst is a non-returning function or a no-return block.
NoRetSuccessor(kb, g, func, e) ==
    \/ e.dst.kind = "func" /\ e.dst.addr \in DOMAIN kb
                           /\ kb[e.dst.addr].returning = "False"
    \/ e.dst.kind = "block" /\ NoRetBlock(g, func, e.dst.addr)

\* Function f has temporary endpoints, all of them ordinary blocks whose
\* successors are all non-returning.
AllEndpointsNoRet(kb, g, func) ==
    \A fo \in FirstOutChoices(func), fi \in FirstInChoices(func) :
        /\ ~DropRaises(kb, func, fo)
        /\ TemporaryEndpoints(kb, func, fo, fi) # {}
        /\ \A t \in TemporaryEndpoints(kb, func, fo, fi) :
              /\ t[2].kind = "block"
              /\ \A e \in TGOutEdges(func, t[2]) : NoRetSuccessor(kb, g, func, e)

\* Some temporary endpoint of f is an ordinary block with a successor that
\* may return.
SomeEndpointMayReturn(kb, g, func) ==
    \A fo \in FirstOutChoices(func), fi \in FirstInChoices(func) :
        /\ ~DropRaises(kb, func, fo)
        /\ \E t \in TemporaryEndpoints(kb, func, fo, fi) :
              /\ t[2].kind = "block"
              /\ \E e \in TGOutEdges(func, t[2]) : ~NoRetSuccessor(kb, g, func, e)

\* The visit of f gets to the analysis of the transition graph.
GraphVisit(f) ==
    /\ Visited(f)
    /\ kb_functions[f].returning = "None"
    /\ kb_functions[f].endpoints = {}
    /\ HookVerdict(hooks[f]) = "fallthrough"

\* A visit classifies ordinary-block endpoints as C9 says.
BlockEndpointsClassified ==
    \A f \in DOMAIN kb_functions :
          /\ (GraphVisit(f) /\ AllEndpointsNoRet(kb_functions, graph, kb_functions[f]))
                => kb_functions'[f].returning = "False"
          /\ (GraphVisit(f) /\ SomeEndpointMayReturn(kb_functions, graph, kb_functions[f]))
                => kb_functions'[f].returning = "None"

\* C9: a visited function whose temporary endpoints are all ordinary blocks
\* with only non-returning successors is marked non-returning; one with an
\* ordinary-block endpoint that has a successor that may return is left
\* unknown.
C9_NoReturnBlockEndpoint == [][BlockEndpointsClassified]_vars

\* The visit of f is one of a hooked function with unknown status and no
\* endpoints.
HookedVisit(f) ==
    /\ Visited(f)
    /\ kb_functions[f].returning = "None"
    /\ kb_functions[f].endpoints = {}
    /\ hooks[f] # "unhooked"

\* A visit resolves every hooked function.
AnyHookResolves ==
    \A f \in DOMAIN kb_functions :
          HookedVisit(f)
              => kb_functions'[f].returning
                    = (IF hooks[f] = "no_ret" THEN "False" ELSE "True")

\* C10 as stated: the visit of a hooked function with unknown status and no
\* endpoints sets returning to False when the hook is flagged NO_RET and
\* to True otherwise, a hook without any NO_RET included.
C10_HookResolvedSamePass == [][AnyHookResolves]_vars

\* A visit resolves a hooked function by the NO_RET its hook declares.
DeclaredHookResolves ==
    \A f \in DOMAIN kb_functions :
          /\ (HookedVisit(f) /\ hooks[f] = "no_ret")
                => kb_functions'[f].returning = "False"
          /\ (HookedVisit(f) /\ hooks[f] = "ret")
                => kb_functions'[f].returning = "True"
          /\ (HookedVisit(f) /\ hooks[f] = "no_attr")
                => \E v \in GraphVerdicts(kb_functions, hooks, graph, kb_functions[f]) :
                      /\ v # "raise"
                      /\ kb_functions'[f].returning = v

\* C10 amended: the visit sets returning to False when the hook declares
\* NO_RET true and to True when it declares NO_RET false; a hook that
\* declares no NO_RET decides nothing, and the function gets what the
\* analysis of its transition graph gives.
C10_DeclaredHookResolved == [][DeclaredHookResolves]_vars

\* A function without endpoints whose hook declares NO_RET false has been
\* marked returning by the current pass.
C10_Witness ==
    /\ ret_pc = "visit"
    /\ \E f \in DOMAIN kb_functions :
          /\ hooks[f] = "ret"
          /\ kb_functions[f].endpoints = {}
          /\ kb_functions[f].returning = "True"
          /\ f \in Range(changes.functions_return)

\* The visit of f is one of a function with unknown status and endpoints.
EndpointVisit(f) ==
    /\ Visited(f)
    /\ kb_functions[f].returning = "None"
    /\ kb_functions[f].endpoints # {}

\* A visit marks a function with endpoints returning and records it.
EndpointMarksReturning ==
    \A f \in DOMAIN kb_functions :
          EndpointVisit(f)
              => /\ kb_functions'[f].returning = "True"
                 /\ f \in Range(changes'.functions_return)
                 /\ f \notin Range(changes'.functions_do_not_return)

\* This step is the `return changes` of a pass.
PassReturns ==
    /\ ret_pc = "visit"
    /\ ret_pc' = "idle"
    /\ last_pass' = "returned"

\* The record a pass returns holds every function of the pass that was
\* unknown at its entry and has endpoints.
EndpointFunctionsReported ==
    PassReturns
        => \A f \in DOMAIN kb_functions :
              (InPass(f) /\ entry_returning[f] = "None" /\ kb_functions[f].endpoints # {})
                  => /\ kb_functions'[f].returning = "True"
                     /\ f \in Range(changes'.functions_return)

\* C11: a function with unknown status and at least one endpoint is marked
\* returning by the visit of one pass, whatever its hook and its transition
\* graph are, and the record the pass returns lists it in functions_return.
C11_EndpointFunctionReturns ==
    /\ [][EndpointMarksReturning]_vars
    /\ [][EndpointFunctionsReported]_vars

\* A pass has returned that marked returning a function with an endpoint, a
\* call in its transition graph and a hook flagged NO_RET.
C11_Witness ==
    /\ last_pass = "returned"
    /\ \E f \in DOMAIN kb_functions :
          /\ hooks[f] = "no_ret"
          /\ entry_returning[f] = "None"
          /\ kb_functions[f].endpoints # {}
          /\ \E e \in kb_functions[f].transition_graph : e.type = "call"
          /\ kb_functions[f].returning = "True"
          /\ f \in Range(changes.functions_return)

\* The functions whose flag went from unknown to v in the last pass.
WentTo(v) ==
    {f \in DOMAIN kb_functions :
        entry_returning[f] = "None" /\ kb_functions[f].returning = v}

\* The list s holds no element twice.
NoDuplicates(s) == Cardinality(Range(s)) = Len(s)

\* C12: the record a pass returns lists in functions_return exactly the
\* functions that went from unknown to True in the pass and in
\* functions_do_not_return exactly those that went from unknown to False;
\* the lists are disjoint and without duplicates, and a function whose flag
\* was set before the pass is in neither.
C12_ChangesRecordExact ==
    last_pass = "returned"
        => /\ Range(changes.functions_return) = WentTo("True")
           /\ Range(changes.functions_do_not_return) = WentTo("False")
           /\ Range(changes.functions_return)
                 \cap Range(changes.functions_do_not_return) = {}
           /\ NoDuplicates(changes.functions_return)
           /\ NoDuplicates(changes.functions_do_not_return)
           /\ \A f \in DOMAIN kb_functions :
                 entry_returning[f] # "None"
                     => /\ f \notin Range(changes.functions_return)
                        /\ f \notin Range(changes.functions_do_not_return)

\* A second pass has returned that marked a function non-returning, another
\* function having been determined before it.
C12_Witness ==
    /\ last_pass = "returned"
    /\ passes >= 2
    /\ changes.functions_do_not_return # << >>
    /\ \E f \in DOMAIN kb_functions : entry_returning[f] # "None"

\* ---------------------------------------------------------- make_functions()
\* make_functions() has returned.
FunctionsMade == mf_pc = "done"

\* C13: after make_functions() the address of every node of the graph maps
\* to one function in the block -> function map, and that function is in
\* the function collection.
C13_FunctionPartition ==
    FunctionsMade
        => \A n \in graph.nodes :
              /\ n.addr \in DOMAIN blockaddr_to_function
              /\ blockaddr_to_function[n.addr] \in DOMAIN kb_functions

\* C14: after make_functions() the source and the destination of every call
\* or syscall edge between assigned blocks belong to different functions,
\* unless the destination is the entry of the source's own function.
C14_CallEdgesCrossFunctions ==
    FunctionsMade
        => \A e \in graph.edges :
              ( /\ IsCallKind(e.data.jumpkind)
                /\ e.src.addr \in DOMAIN blockaddr_to_function
                /\ e.dst.addr \in DOMAIN blockaddr_to_function )
              => \/ blockaddr_to_function[e.src.addr] # blockaddr_to_function[e.dst.addr]
                 \/ e.dst.addr = blockaddr_to_function[e.src.addr]

RECURSIVE ReachableWithoutCalls(_, _)
\* The nodes reachable from those of S over edges that are no call and no
\* syscall.
ReachableWithoutCalls(g, S) ==
    LET T == S \cup {e.dst : e \in {x \in g.edges :
                                       x.src \in S /\ ~IsCallKind(x.data.jumpkind)}}
    IN  IF T = S THEN S ELSE ReachableWithoutCalls(g, T)

\* C15: a traversal visits only nodes that its seed reaches over edges that
\* are no call and no syscall.
C15_TraversalSkipsCalls ==
    mf_pc \in {"bfs", "edges"}
        => traversed \subseteq ReachableWithoutCalls(graph, seed)

\* This step is the removal of the stubs after PLT entries.
PltStep == mf_pc = "plt" /\ mf_pc' = "update"

\* The spec's example: of a function at 0x1010 flagged as a PLT stub and a
\* function at 0x1000, the one at 0x1010 is removed.
PltExampleCollapsed ==
    ( /\ PltStep
      /\ FnBase \in DOMAIN kb_functions
      /\ FnBase + PltAlign \in DOMAIN kb_functions
      /\ FnBase + PltAlign \in plt_stubs )
    => FnBase + PltAlign \notin DOMAIN kb_functions'

\* C16 as stated: when make_functions() ends up with a function at 0x1010
\* flagged as a PLT stub and another function at 0x1000, the function at
\* 0x1010 is removed from the function collection.
C16_PltExample == [][PltExampleCollapsed]_vars

\* Of a function at 0x1000 flagged as a PLT stub and the functions at
\* 0x1001..0x100f, the latter are removed and the stub is kept; functions at
\* 0x1000 and 0x1010 are both kept, whichever is flagged.
PltStubFollowersRemoved ==
    /\ ( PltStep /\ FnBase \in DOMAIN kb_functions /\ FnBase \in plt_stubs )
          => /\ FnBase \in DOMAIN kb_functions'
             /\ \A a \in DOMAIN kb_functions :
                   (FnBase < a /\ a < FnBase + PltAlign) => a \notin DOMAIN kb_functions'
    /\ ( PltStep /\ FnBase \in DOMAIN kb_functions
                 /\ FnBase + PltAlign \in DOMAIN kb_functions )
          => /\ FnBase \in DOMAIN kb_functions'
             /\ FnBase + PltAlign \in DOMAIN kb_functions'

\* C16 amended: a function at 0x1000 flagged as a PLT stub and another
\* function at an address from 0x1001 to 0x100f are collapsed, the latter
\* being removed; functions at 0x1000 and 0x1010 are both kept.
C16_PltExampleAligned == [][PltStubFollowersRemoved]_vars

\* make_functions() has removed the function at 0x1001 behind the PLT stub
\* at 0x1000.
C16_Witness ==
    /\ FunctionsMade
    /\ FnBase \in plt_stubs
    /\ FnBase \in DOMAIN kb_functions
    /\ FnBase + 1 \in DOMAIN blockaddr_to_function
    /\ blockaddr_to_function[FnBase + 1] = FnBase + 1
    /\ FnBase + 1 \notin DOMAIN kb_functions

\* An address rounded down to a multiple of PltAlign.
RoundedDown(a) == PltAlign * (a \div PltAlign)

\* The PLT step removes the functions behind a flagged stub and no other,
\* and changes no function it keeps.
PltRemovalExact ==
    PltStep
        => /\ \A F \in DOMAIN kb_functions :
                 F \notin DOMAIN kb_functions'
                     <=> /\ RoundedDown(F) # F
                         /\ RoundedDown(F) \in DOMAIN kb_functions
                         /\ RoundedDown(F) \in plt_stubs
           /\ DOMAIN kb_functions' \subseteq DOMAIN kb_functions
           /\ \A F \in DOMAIN kb_functions' : kb_functions'[F] = kb_functions[F]

\* The last step of make_functions() leaves the function collection alone.
UpdateKeepsFunctions ==
    (mf_pc = "update" /\ mf_pc' = "done") => kb_functions' = kb_functions

\* C17: at the end of make_functions() a function F is removed from the
\* collection if and only if F's address rounded down to a multiple of 16
\* differs from F's address and is the address of a function of the
\* collection flagged as a PLT stub; every other function is kept.
C17_PltCollapseRule ==
    /\ [][PltRemovalExact]_vars
    /\ [][UpdateKeepsFunctions]_vars

\* make_functions() has returned after removing a function behind a PLT
\* stub that it kept.
C17_Witness ==
    /\ FunctionsMade
    /\ \E a \in DOMAIN blockaddr_to_function :
          /\ blockaddr_to_function[a] = a
          /\ a \notin DOMAIN kb_functions
          /\ RoundedDown(a) \in plt_stubs
          /\ RoundedDown(a) \in DOMAIN kb_functions

\* The edge the traversal hands to the handler in this step.
HandledEdge == cur_edges[edge_idx]

\* The function of the source of the handled edge.
SrcFunction ==
    AddrToFunction(FnState(kb_functions, blockaddr_to_function), HandledEdge.src.addr,
                   tmp_functions, hooks).f

\* The transition graph of function f before and after the step.
GraphBefore(f) ==
    IF f \in DOMAIN kb_functions THEN kb_functions[f].transition_graph ELSE {}
GraphAfter(f) == kb_functions'[f].transition_graph

\* This step handles an edge of one of the jump kinds.
HandlesEdge(kinds) ==
    /\ mf_pc = "edges"
    /\ HandledEdge.data.jumpkind \in kinds

\* The destination is claimed by, or is the known entry of, a function
\* other than the source's.
InOtherFunction(dst_addr) ==
    \/ /\ dst_addr \in DOMAIN blockaddr_to_function
       /\ blockaddr_to_function[dst_addr] # SrcFunction
    \/ /\ dst_addr \in DOMAIN tmp_functions
       /\ dst_addr # SrcFunction

\* The map after the step sends addr to the function that had claimed it,
\* or to f when it was unclaimed.
ClaimedFor(addr, f) ==
    /\ addr \in DOMAIN blockaddr_to_function'
    /\ blockaddr_to_function'[addr] =
          (IF addr \in DOMAIN blockaddr_to_function /\ addr # HandledEdge.src.addr
           THEN blockaddr_to_function[addr]
           ELSE IF addr = HandledEdge.src.addr THEN SrcFunction ELSE f)

\* A direct jump is recorded as C18 says.
BoringEdgeHandled ==
    HandlesEdge({"Ijk_Boring"})
        => LET src == HandledEdge.src.addr
               dst == HandledEdge.dst.addr
               outside  == FEdge(BlockNode(src), FuncNode(dst), "transition", TRUE)
               ordinary == FEdge(BlockNode(src), BlockNode(dst), "transition", FALSE)
           IN  IF InOtherFunction(dst)
               THEN /\ outside \in GraphAfter(SrcFunction)
                    /\ GraphAfter(SrcFunction) \ GraphBefore(SrcFunction) \subseteq {outside}
               ELSE /\ ordinary \in GraphAfter(SrcFunction)
                    /\ GraphAfter(SrcFunction) \ GraphBefore(SrcFunction) \subseteq {ordinary}
                    /\ ClaimedFor(dst, SrcFunction)

\* C18: the handler records an outside transition for a direct jump exactly
\* when the destination is claimed by, or is the known entry of, a function
\* other than the source's; otherwise, a jump to the source function's own
\* entry included, it claims an unclaimed destination for the source's
\* function and records an ordinary transition.
C18_BoringEdge == [][BoringEdgeHandled]_vars

\* The function the handler takes for the callee of the handled edge.
CalleeFunction ==
    LET r == AddrToFunction(FnState(kb_functions, blockaddr_to_function),
                            HandledEdge.src.addr, tmp_functions, hooks)
    IN  AddrToFunction(r.st, HandledEdge.dst.addr, tmp_functions, hooks).f

\* The address is claimed when the handler looks at the fall-through of the
\* handled call: it was in the map, or it is the source or the callee that
\* this step puts there.
ClaimedAtCall(addr) ==
    \/ addr \in DOMAIN blockaddr_to_function
    \/ addr = HandledEdge.src.addr
    \/ addr = HandledEdge.dst.addr

\* The function that holds the address then.
ClaimantAtCall(addr) ==
    IF addr \in DOMAIN blockaddr_to_function THEN blockaddr_to_function[addr]
    ELSE IF addr = HandledEdge.src.addr THEN SrcFunction
    ELSE CalleeFunction

\* A call or syscall edge is recorded as C19 says.
CallEdgeHandled ==
    HandlesEdge({"Ijk_Call"} \cup SysKinds)
        => LET src == HandledEdge.src.addr
               dst == HandledEdge.dst.addr
               returning_target == src + HandledEdge.src.size
               to_outside == /\ ClaimedAtCall(returning_target)
                             /\ ClaimantAtCall(returning_target) # SrcFunction
               call    == FEdge(BlockNode(src), FuncNode(dst), "call", FALSE)
               fakeret == FEdge(BlockNode(src), BlockNode(returning_target),
                                "fake_return", to_outside)
               added   == GraphAfter(SrcFunction) \ GraphBefore(SrcFunction)
           IN  /\ call \in GraphAfter(SrcFunction)
               /\ IF kb_functions'[CalleeFunction].returning = "True"
                  THEN /\ fakeret \in GraphAfter(SrcFunction)
                       /\ added \subseteq {call, fakeret}
                       /\ returning_target \in DOMAIN blockaddr_to_function'
                       /\ blockaddr_to_function'[returning_target] =
                             (IF ClaimedAtCall(returning_target)
                              THEN ClaimantAtCall(returning_target)
                              ELSE SrcFunction)
                  ELSE /\ added \subseteq {call}
                       /\ ( returning_target \in DOMAIN blockaddr_to_function'
                               => ClaimedAtCall(returning_target) )

\* C19: for a call or syscall edge the handler always records a call edge;
\* it records a fake return from the call site to src.addr + src.size if
\* and only if the callee's returning flag is True, tagged to_outside
\* exactly when that address was already claimed by a function other than
\* the source's, and it claims an unclaimed fall-through address for the
\* source's function.
C19_CallEdge == [][CallEdgeHandled]_vars

\* make_functions() has returned on a graph without fake-return edges, and
\* a call of a returning function whose fall-through address another
\* function had claimed has left a fake return tagged to_outside.
C19_Witness ==
    /\ \E f \in DOMAIN kb_functions : \E e \in kb_functions[f].transition_graph :
          /\ e.type = "fake_return"
          /\ e.outside
          /\ blockaddr_to_function[e.dst.addr] # f
          /\ \A x \in graph.edges : x.data.jumpkind # "Ijk_FakeRet"
    /\ mf_pc = "done"

\* ------------------------------------------ _process_irrational_functions()
\* _process_irrational_functions() has just returned.
IrrationalProcessed == mf_pc = "seeds"

\* Function F has an unresolved indirect jump, an endpoint and a span that
\* G and all blocks of G lie strictly inside of.
Encloses(F, G) ==
    /\ F # G
    /\ HasUnresolvedJumps(functions_at_entry[F], indirect_jumps)
    /\ FunctionSpan(functions_at_entry[F], graph, memory).ok
    /\ InsideSpan(FunctionSpan(functions_at_entry[F], graph, memory), functions_at_entry[G])

\* Every function that is enclosed, and no other, was deleted from the
\* known functions.
EnclosedDeleted ==
    \A G \in DOMAIN functions_at_entry :
        G \notin DOMAIN tmp_functions
            <=> \E F \in DOMAIN functions_at_entry : Encloses(F, G)

\* Every deleted function was folded into a function that encloses it, and
\* its blocks map to the function that this function's entry maps to.
FoldedIntoEnclosing ==
    \A G \in DOMAIN functions_to_remove :
        /\ Encloses(functions_to_remove[G], G)
        /\ functions_to_remove[G] \in DOMAIN blockaddr_to_function
        /\ \A b \in functions_at_entry[G].blocks :
              /\ b \in DOMAIN blockaddr_to_function
              /\ blockaddr_to_function[b]
                    = blockaddr_to_function[functions_to_remove[G]]

\* C20: when _process_irrational_functions() has returned, a function G was
\* deleted from the known functions if and only if some function F with an
\* unresolved indirect jump, an endpoint and a non-empty span has G's
\* address and all of G's blocks strictly inside its span; G was folded
\* into such an F, and every block of G maps to the function for F.
C20_IrrationalMerge ==
    IrrationalProcessed => (EnclosedDeleted /\ FoldedIntoEnclosing)

\* ------------------------------------------------ the tail-probing loop
\* The probing loop is about to run an iteration.
Probing == mf_pc = "probe"

\* The function whose tail is probed, and its highest endpoint.
ProbedFunction == functions_at_entry[CHOOSE f \in scan_func : TRUE]
ProbedEndpoint ==
    CHOOSE n \in graph.nodes :
        /\ n.addr \in ProbedFunction.endpoints
        /\ \A a \in ProbedFunction.endpoints : a <= n.addr

\* sim_run() raises a translation or memory fault at last_addr.
ProbeFaults == last_addr \notin DOMAIN memory

\* The probed block has not exactly one successor, or its successor is no
\* direct jump, is symbolic, or lies outside the window
\* [max(startpoint, endpoint.addr - 0x40), endpoint.addr + endpoint.size).
ProbeMustStop ==
    LET b == memory[last_addr]
        low == IF ProbedFunction.addr >= ProbedEndpoint.addr - 64
               THEN ProbedFunction.addr ELSE ProbedEndpoint.addr - 64
    IN  \/ b.nsucc # 1
        \/ b.jumpkind # "Ijk_Boring"
        \/ b.symbolic
        \/ b.suc < low
        \/ b.suc >= ProbedEndpoint.addr + ProbedEndpoint.size

\* An iteration that faults or must stop leaves the loop with the endpoint
\* found so far, and make_functions() goes on; any other iteration moves the
\* endpoint past the probed block.
ProbeIteration ==
    Probing =>
        IF ProbeFaults \/ ProbeMustStop
        THEN /\ mf_pc' \in {"scan", "merge", "seeds"}
             /\ endpoint_addr' = endpoint_addr
        ELSE /\ mf_pc' = "probe"
             /\ endpoint_addr' = last_addr + memory[last_addr].size

\* The end of the highest block that sim_run() can lift.
ProbeLimit ==
    LET top == CHOOSE a \in DOMAIN memory : \A c \in DOMAIN memory : c <= a
    IN  top + memory[top].size

\* An iteration after which the loop goes on has moved last_addr forward,
\* and not past the blocks that can be lifted.
ProbeAdvances ==
    (Probing /\ mf_pc' = "probe")
        => /\ last_addr < last_addr'
           /\ last_addr' <= ProbeLimit

\* C21: the tail-probing loop always exits: an iteration that continues
\* moves last_addr forward within the liftable blocks; a translation or
\* memory fault ends the loop at once, keeps the endpoint found so far and
\* lets make_functions() go on; and so does a block with a number of
\* successors other than one, a successor that is no direct jump, a symbolic
\* successor address, or a successor address outside the window.
C21_ProbeLoopExits == [][ProbeIteration /\ ProbeAdvances]_vars

\* make_functions() has returned after a probing loop that moved the
\* endpoint past one block and was ended by a fault at the next address.
C21_Witness ==
    /\ mf_pc = "done"
    /\ memory # << >>
    /\ endpoint_addr = LastFnAddr + 1
    /\ last_addr = endpoint_addr
    /\ last_addr \notin DOMAIN memory

\* ------------------------------------------------------- ignored edges
\* The jump kind is none of call, syscall, return, boring and fake return.
Unrecognized(jumpkind) ==
    /\ ~IsCallKind(jumpkind)
    /\ jumpkind \notin {"Ijk_Ret", "Ijk_Boring", "Ijk_FakeRet"}

\* The handler, called for an edge of an unrecognized kind, records no edge
\* in any transition graph, claims no block but the source of the edge, and
\* creates no function but the one of the source.
IgnoredEdgeHandled ==
    (mf_pc = "edges" /\ Unrecognized(HandledEdge.data.jumpkind))
        => /\ \A f \in DOMAIN kb_functions' : GraphAfter(f) = GraphBefore(f)
           /\ \A a \in DOMAIN blockaddr_to_function' :
                 \/ a = HandledEdge.src.addr
                 \/ /\ a \in DOMAIN blockaddr_to_function
                    /\ blockaddr_to_function'[a] = blockaddr_to_function[a]
           /\ DOMAIN kb_functions' \subseteq DOMAIN kb_functions \cup {SrcFunction}

\* The node is a seed of make_functions(): the target of a call, or at the
\* address of a function known at the entry.
EntryCandidate(n) ==
    \/ n.addr \in DOMAIN functions_at_entry
    \/ \E e \in graph.edges : e.dst = n /\ IsCallKind(e.data.jumpkind)

\* No function is created at the destination of an edge of an unrecognized
\* kind that nothing else leads to.
NoFunctionAtIgnoredTarget ==
    mf_pc # "idle"
        => \A e \in graph.edges :
              ( /\ Unrecognized(e.data.jumpkind)
                /\ e.dst # e.src
                /\ ~EntryCandidate(e.dst)
                /\ \A x \in graph.edges : x.dst = e.dst => x = e )
              => e.dst.addr \notin DOMAIN kb_functions

\* C29: an edge whose jump kind is not recognized is ignored by function
\* building: handling it records no edge and claims no block for a
\* function, and it does not make a function appear at its destination.
C29_IgnoredEdge == [][IgnoredEdgeHandled /\ NoFunctionAtIgnoredTarget']_vars

\* ------------------------------------------------- seeds and their order
\* The seeds are the targets of the call and syscall edges and the nodes at
\* the addresses of the functions known at the entry.
SeedsCollected ==
    mf_pc = "seeds"
        => function_nodes' =
              {n \in graph.nodes :
                  \/ n.addr \in DOMAIN functions_at_entry
                  \/ \E e \in graph.edges : e.dst = n /\ IsCallKind(e.data.jumpkind)}

\* A traversal starts when the one before it has emptied its stack, from
\* the remaining seed of the lowest address, which lies above the seed
\* before it.
TraversalStarts ==
    (seed' # seed)
        => /\ mf_pc = "bfs" /\ stack = << >> /\ cur_edges = << >>
           /\ \E fn \in function_nodes :
                 /\ seed' = {fn}
                 /\ function_nodes' = function_nodes \ {fn}
                 /\ stack' = <<fn>>
                 /\ \A m \in function_nodes : fn.addr <= m.addr
                 /\ \A old \in seed : old.addr < fn.addr

\* Between two starts no seed is dropped, and none is left when the
\* traversals are over.
SeedsAllTraversed ==
    /\ (seed' = seed /\ mf_pc # "seeds") => function_nodes' = function_nodes
    /\ mf_pc' \in {"plt", "update", "done"} => function_nodes' = {}

\* C30: the seeds of make_functions() are exactly the targets of call and
\* syscall edges and the nodes at the addresses of the functions known
\* before the reset, those removed by the merge included; one traversal is
\* run per seed, in ascending order of the seed addresses, each after the
\* one before it has ended.
C30_SeedsInOrder == [][SeedsCollected /\ TraversalStarts /\ SeedsAllTraversed]_vars

\* The traversal of a seed that is the entry of a function merged away has
\* started after that of a lower seed, and a higher seed is yet to come.
C30_Witness ==
    /\ mf_pc = "bfs"
    /\ \E fn \in seed :
          /\ fn.addr \in DOMAIN functions_to_remove
          /\ stack = <<fn>>
          /\ \E m \in function_nodes : fn.addr < m.addr
          /\ FnBase \in DOMAIN functions_at_entry
          /\ FnBase < fn.addr
          /\ \A m \in function_nodes : m.addr # FnBase

\* --------------------------------------------- rewiring of a truncation
\* This step of normalize() truncates the node Truncated.
Truncated == all_nodes[other_idx]
TruncationStep == norm_pc = "break" /\ Truncated.addr # all_nodes[1].addr

\* The new or reused node that stands for Truncated after the step.
Replacement == _nodes'[SimrunKey(Truncated)]

\* Every edge that entered the truncated node enters its replacement with
\* the same data after the step.
IncomingEdgesKept ==
    TruncationStep
        => \A e \in graph.edges :
              e.dst = Truncated
                 => [src |-> e.src, dst |-> Replacement, data |-> e.data] \in graph'.edges

\* The replacement has a direct-jump edge to the smallest node of the group.
BoringEdgeAdded ==
    TruncationStep
        => \E e \in graph'.edges :
              /\ e.src = Replacement
              /\ e.dst = all_nodes[1]
              /\ e.data.jumpkind = "Ijk_Boring"

KeyIndexInGraph == \A k \in DOMAIN _nodes : _nodes[k] \in graph.nodes

\* Every node of the address -> node index is in the graph.
AddrIndexInGraph ==
    \A a \in DOMAIN _nodes_by_addr :
        \A i \in 1 .. Len(_nodes_by_addr[a]) : _nodes_by_addr[a][i] \in graph.nodes

\* No address list holds a node twice.
AddrIndexNoDuplicates ==
    \A a \in DOMAIN _nodes_by_addr :
        \A i \in 1 .. Len(_nodes_by_addr[a]), j \in 1 .. Len(_nodes_by_addr[a]) :
            _nodes_by_addr[a][i] = _nodes_by_addr[a][j] => i = j

\* C28: when normalize() has returned, every value of _nodes and every
\* element of _nodes_by_addr is a node of the graph and no address list
\* holds a node twice, in whatever order the groups were resolved.
C28_IndexesConsistent ==
    Returned => (KeyIndexInGraph /\ AddrIndexInGraph /\ AddrIndexNoDuplicates)

\* ------------------------------------------------------- the query methods
\* This step is a call of the query method op.
QueryMade(op) == queries' = queries + 1 /\ query'.op = op

\* The edges src -> dst of the graph.
EdgesBetween(src, dst) == {e \in graph.edges : e.src = src /\ e.dst = dst}

\* get_exit_stmt_idx() raises when there is no edge src -> dst.
NoEdgeRaises ==
    QueryMade("get_exit_stmt_idx")
        => (EdgesBetween(query'.args[1], query'.args[2]) = {} => result'.raised # "")

\* get_exit_stmt_idx() returns the index of the edge src -> dst.
EdgeIndexReturned ==
    QueryMade("get_exit_stmt_idx")
        => \A e \in EdgesBetween(query'.args[1], query'.args[2]) :
              /\ result'.raised = ""
              /\ Cardinality(result'.value) = 1
              /\ result'.value = e.data.exit_stmt_idx

\* C22: get_exit_stmt_idx(src, dst) fails with an error whenever the graph
\* has no direct edge src -> dst, an absent node included, and leaves the
\* graph unchanged; when the edge exists it returns the exit statement
\* index stored on that edge.
C22_ExitStmtIdx ==
    [][/\ NoEdgeRaises
       /\ EdgeIndexReturned
       /\ QueryMade("get_exit_stmt_idx") => graph' = graph]_vars

\* The nodes at addr that the value is_syscall of the parameter asks for.
NodesAsked(addr, is_syscall) ==
    {n \in graph.nodes :
        /\ n.addr = addr
        /\ is_syscall = "True" => n.is_syscall
        /\ is_syscall = "False" => ~n.is_syscall}

\* C23: get_all_nodes(addr, is_syscall) returns every node at addr when
\* is_syscall is None, the syscall nodes at addr only when it is True and
\* the other nodes at addr only when it is False.
C23_AllNodesFiltered ==
    [][QueryMade("get_all_nodes")
          => result'.value = NodesAsked(query'.args[1], query'.args[2])]_vars

\* Whether get_any_node(addr, is_syscall, anyaddr) may return the node n.
Matches(n, addr, is_syscall, anyaddr) ==
    /\ n.looping_times = 0
    /\ \/ n.addr = addr
       \/ anyaddr /\ SizeKnown(n) /\ n.addr <= addr /\ addr < n.addr + n.size
    /\ is_syscall # "None" => n.is_syscall = (is_syscall = "True")

\* The nodes of the graph that the call of this step may return.
MatchingNodes ==
    {n \in graph.nodes : Matches(n, query'.args[1], query'.args[2], query'.args[3])}

\* C24: get_any_node(addr, is_syscall, anyaddr) returns a node only if the
\* node has looping_times 0, is at addr (or, with anyaddr and a known size,
\* holds addr) and has the is_syscall asked for; it returns None exactly
\* when the graph has no such node.
C24_AnyNode ==
    [][QueryMade("get_any_node")
          => /\ result'.value \subseteq MatchingNodes
             /\ result'.value = {} <=> MatchingNodes = {}]_vars

\* get_any_node(addr, anyaddr=True) returned a block that holds addr inside,
\* passing over a node at addr that is revisited in a loop or is a syscall.
C24_Witness ==
    /\ query.op = "get_any_node"
    /\ query.args[3]
    /\ \E n \in result.value : n.addr < query.args[1]
    /\ \E m \in graph.nodes :
          m.addr = query.args[1] /\ (m.looping_times > 0 \/ m.is_syscall)

\* The nodes with an edge to n (from n), the fake-return edges left out
\* when excluding_fakeret is set.
Joined(n, excluding_fakeret, incoming) ==
    {m \in graph.nodes :
        \E e \in graph.edges :
            /\ IF incoming THEN e.src = m /\ e.dst = n ELSE e.src = n /\ e.dst = m
            /\ excluding_fakeret => e.data.jumpkind # "Ijk_FakeRet"}

\* C25: get_successors(n) and get_predecessors(n) return exactly the nodes
\* joined to n by an edge that is no fake return when excluding_fakeret is
\* set, every successor or predecessor when it is not, and the empty list
\* for a node that is not in the graph.
C25_Neighbours ==
    [][/\ QueryMade("get_predecessors")
          => /\ result'.value = Joined(query'.args[1], query'.args[2], TRUE)
             /\ query'.args[1] \notin graph.nodes => result'.value = {}
       /\ QueryMade("get_successors")
          => /\ result'.value = Joined(query'.args[1], query'.args[2], FALSE)
             /\ query'.args[1] \notin graph.nodes => result'.value = {}]_vars

\* get_predecessors(n) left out a predecessor joined by a fake return and
\* returned one joined by another edge.
C25_Witness ==
    /\ query.op = "get_predecessors"
    /\ query.args[2]
    /\ \E e1 \in graph.edges, e2 \in graph.edges :
          /\ e1.dst = query.args[1] /\ e1.data.jumpkind = "Ijk_FakeRet"
          /\ e2.dst = query.args[1] /\ e2.data.jumpkind # "Ijk_FakeRet"
          /\ e1.src \notin result.value
          /\ e2.src \in result.value

\* ------------------------------------------------- dependencies of an action
\* The operands the action was constructed with that are not None.
PresentOperands == {action_args[i] : i \in {j \in 4 .. 9 : action_args[j].kind # "None"}}

\* The action is a read of the register region at a concrete integer offset.
ConcreteRegisterRead ==
    action_args[1] = "reg" /\ action_args[2] = "read" /\ action_args[4].kind = "int"

\* The action is a read with a tmp.
ReadWithTmp == action_args[2] = "read" /\ action_args[3] # {}

\* The register and the temporary dependencies the action has to report.
ExpectedRegDeps ==
    UNION {o.reg_deps : o \in PresentOperands}
        \cup (IF ConcreteRegisterRead THEN {action_args[4].value} ELSE {})
ExpectedTmpDeps ==
    UNION {o.tmp_deps : o \in PresentOperands}
        \cup (IF ReadWithTmp THEN action_args[3] ELSE {})

\* C26: reg_deps of a SimActionData is the union of the register
\* dependencies of its present operands, plus its own address exactly when
\* it is a read of the register region at a concrete integer offset;
\* tmp_deps is the union of the operands' temporary dependencies, plus its
\* tmp slot exactly when it is a read with a tmp; a write whose operands
\* carry no dependencies reports the empty set for both.
C26_DependencyUnion ==
    /\ query.op = "reg_deps" => result = Return(ExpectedRegDeps)
    /\ query.op = "tmp_deps" => result = Return(ExpectedTmpDeps)

\* ------------------------------------------------------ the tag of an exit
\* The exit was constructed with a guard condition (with an exit type).
ConditionSupplied == action_args[2].kind # "None"
ExitTypeSupplied == action_args[3] # {}

\* C34: a SimActionExit constructed without an exit type is tagged
\* 'conditional' exactly when a guard condition is supplied and 'default'
\* exactly when none is; an exit type that is supplied is stored unchanged.
C34_ExitTypeTag ==
    sim_action.type = "exit"
        => /\ ~ExitTypeSupplied
              => /\ sim_action.exit_type = "conditional" <=> ConditionSupplied
                 /\ sim_action.exit_type = "default" <=> ~ConditionSupplied
           /\ ExitTypeSupplied => action_args[3] = {sim_action.exit_type}

\* ------------------------------------------------------ first claimant wins
\* The traversal stage of make_functions(): the seeds are collected, then
\* traversed one after the other.
InTraversalStage == mf_pc \in {"seeds", "bfs", "edges"}

\* Every block address with an entry keeps its function over this step.
ClaimsKept ==
    \A a \in DOMAIN blockaddr_to_function :
        /\ a \in DOMAIN blockaddr_to_function'
        /\ blockaddr_to_function'[a] = blockaddr_to_function[a]

\* C31: first claimant wins: during the traversal stage of make_functions(),
\* once a block address has an entry in blockaddr_to_function, no later
\* handler invocation and no later seed traversal changes the function the
\* address maps to.
C31_FirstClaimantWins == [][InTraversalStage => ClaimsKept]_vars

\* The handler has been given an edge u -> v that is no call, out of a
\* block of one function into a block that an earlier traversal claimed for
\* another function, and the earlier claim stands.
C31_Witness ==
    /\ mf_pc \in {"bfs", "edges"}
    /\ \E e \in graph.edges :
          /\ ~IsCallKind(e.data.jumpkind)
          /\ e.src \in traversed
          /\ (mf_pc = "edges" =>
                 \E i \in 1 .. edge_idx - 1 : cur_edges[i] = e)
          /\ e.src.addr \in DOMAIN blockaddr_to_function
          /\ e.dst.addr \in DOMAIN blockaddr_to_function
          /\ blockaddr_to_function[e.dst.addr] # blockaddr_to_function[e.src.addr]
          /\ blockaddr_to_function[e.dst.addr] # e.dst.addr
          /\ \E fn \in seed : blockaddr_to_function[e.dst.addr] < fn.addr

\* ------------------------------------------- function_address of the nodes
\* The nodes of the key -> node index whose address has an entry in
\* blockaddr_to_function.
AssignedNodes ==
    {n \in {_nodes[k] : k \in DOMAIN _nodes} : n.addr \in DOMAIN blockaddr_to_function}

\* C32: after make_functions() has returned, every node of the key -> node
\* index whose address was assigned to a function has as function_address
\* the address of a function of the collection, and so not the address of a
\* function that the removal of the PLT stubs deleted.
C32_FunctionAddressPresent ==
    mf_pc = "done"
        => \A n \in AssignedNodes :
              /\ n \in DOMAIN function_address
              /\ function_address[n] \in DOMAIN kb_functions

\* ------------------------------------------- fixpoint of the return analysis
\* The returning flags of the functions.
ReturningFlags == [f \in DOMAIN kb_functions |-> kb_functions[f].returning]

\* No more passes over all functions have changed a flag than there are
\* functions.
ChangingPassesBounded == changing_passes <= Cardinality(DOMAIN kb_functions)

\* A pass over all functions comes to its return.
FullPassReturns == _changed_functions.is_none => last_pass # "raised"

\* Once a pass over all functions has returned an empty record, a later
\* pass on the unchanged collection changes no flag, returns, and returns an
\* empty record.
FixpointKept ==
    settled /\ settled'
        => /\ ReturningFlags' = ReturningFlags
           /\ last_pass' # "raised"
           /\ last_pass' = "returned"
                 => changes' = [functions_return |-> << >>,
                                functions_do_not_return |-> << >>]

\* C33: repeated return analysis reaches a fixpoint: passes of
\* _analyze_function_features() over all functions, made again and again,
\* come to a pass that returns an empty record after at most as many passes
\* that change a flag as there are functions; every later pass on the
\* unchanged collection returns an empty record too and changes no flag.
C33_ReturnFixpoint ==
    [][ChangingPassesBounded' /\ FullPassReturns' /\ FixpointKept]_vars
====
